---- MODULE Spec2Model ----
(***************************************************************************)
(* A model of the virtual-pet repository: the need-decay engine of         *)
(* app/models/pet.py, the reward function of simulation/simulator.py and   *)
(* the state discretizer of training/rl_utils.py.                          *)
(*                                                                         *)
(* Time is counted in whole seconds of the wall clock (datetime.utcnow).   *)
(* A reward is accumulated in thousandths and returned, rounded by         *)
(* round(reward, 2), in hundredths.                                        *)
(***************************************************************************)
EXTENDS Integers, Sequences, FiniteSets, TLC

VARIABLES pet, clock, before, mid, call, ncalls, rw, dz, ix,
          agent, disk, ag, agcalls, tr, ep, ev, sv

vars ==
  <<pet, clock, before, mid, call, ncalls, rw, dz, ix,
    agent, disk, ag, agcalls, tr, ep, ev, sv>>

petvars == <<pet, clock, before, mid, call, ncalls>>

\* Everything but the creature, but the reward call, but the discretizer
\* call, but the state-index call.
agentvars == <<agent, disk, ag, agcalls>>

notpet == <<rw, dz, ix, agentvars, tr, ep, ev, sv>>

notrw == <<petvars, dz, ix, agentvars, tr, ep, ev, sv>>

notdz == <<petvars, rw, ix, agentvars, tr, ep, ev, sv>>

notix == <<petvars, rw, dz, agentvars, tr, ep, ev, sv>>

notagent == <<petvars, rw, dz, ix, tr, ep, ev, sv>>

nottrain == <<petvars, rw, dz, ix, ag, agcalls, ep, ev, sv>>

notepisode == <<petvars, rw, dz, ix, agentvars, tr, ev, sv>>

notevaluation == <<petvars, rw, dz, ix, agentvars, tr, ep, sv>>

notservice == <<petvars, rw, dz, ix, agentvars, tr, ep, ev>>

----------------------------------------------------------------------------
(* Arithmetic helpers of the Python runtime.                               *)

Min(a, b) == IF a <= b THEN a ELSE b

Max(a, b) == IF a >= b THEN a ELSE b

\* int(x) of a quotient n/d with d > 0: truncation toward zero.
TruncDiv(n, d) == IF n >= 0 THEN n \div d ELSE -((-n) \div d)

----------------------------------------------------------------------------
(* Bounds of the model.                                                    *)

\* Calls made on one creature in the general specification.
MaxCalls == 3

\* Wall-clock horizon, in hours, of the long-running specification.
MaxHours == 52

\* Integer values tried beyond each end of [0,100] by the discretizer.
ValueSlack == 4

\* Q-table updates made on one agent by its direct callers.
MaxUpdates == 2

\* Calls of decay_exploration_rate made on one agent by its direct callers.
MaxDecays == 3

\* Transition records in a training log.
MaxLogLen == 3

----------------------------------------------------------------------------
(* app/models/pet.py                                                       *)

SecondsPerHour == 3600

SecondsPerDay == 86400

hunger_increase_rate_per_hour == 8

happiness_decay_rate_per_hour == 6

energy_decay_rate_per_hour == 7

cleanliness_decay_rate_per_hour == 5

\* PetNeeds(): the field defaults.
PetNeeds == [hunger |-> 50, happiness |-> 50, energy |-> 100, cleanliness |-> 70]

\* Pet.__init__ at wall-clock time t: PetState defaults and the two timers
\* (its clock reads, microseconds apart, fall in the same second t).
NewPet(t) ==
  [ needs |-> PetNeeds,
    is_alive |-> TRUE,
    age_days |-> 0,
    created_at |-> t,
    last_updated_at |-> t,
    last_tick_time |-> t,
    last_age_update_time |-> t ]

\* Mutant: the hunger limit compared with > instead of >=.
DeathCondition_strict(n) ==
  \/ n.hunger > 100
  \/ n.energy <= 0
  \/ n.happiness <= 0
  \/ n.cleanliness <= 0

\* The "death" condition of Pet.tick.
DeathCondition(n) ==
  \/ n.hunger >= 100
  \/ n.energy <= 0
  \/ n.happiness <= 0
  \/ n.cleanliness <= 0

\* int(rate * hours_passed), hours_passed = time_delta_seconds / 3600.
Decay(rate, time_delta_seconds) ==
  TruncDiv(rate * time_delta_seconds, SecondsPerHour)

\* The needs after the decay step of Pet.tick.
DecayedNeeds(n, time_delta_seconds) ==
  [ hunger |-> Min(100, n.hunger
                   + Decay(hunger_increase_rate_per_hour, time_delta_seconds)),
    happiness |-> Max(0, n.happiness
                   - Decay(happiness_decay_rate_per_hour, time_delta_seconds)),
    energy |-> Max(0, n.energy
                   - Decay(energy_decay_rate_per_hour, time_delta_seconds)),
    cleanliness |-> Max(0, n.cleanliness
                   - Decay(cleanliness_decay_rate_per_hour, time_delta_seconds)) ]

\* Mutant: the age timer restarts at now, dropping the hours beyond the
\* whole days.
AgedPet_restart(p, now) ==
  LET age_delta_seconds == now - p.last_age_update_time
      days == age_delta_seconds \div SecondsPerDay
  IN  IF age_delta_seconds >= SecondsPerDay
      THEN [p EXCEPT !.age_days = @ + days, !.last_age_update_time = now]
      ELSE p

\* The age step of Pet.tick: whole days since the last age update are added
\* to age_days and to _last_age_update_time.
AgedPet(p, now) ==
  LET age_delta_seconds == now - p.last_age_update_time
      days == age_delta_seconds \div SecondsPerDay
  IN  IF age_delta_seconds >= SecondsPerDay
      THEN [p EXCEPT !.age_days = @ + days,
                     !.last_age_update_time = @ + days * SecondsPerDay]
      ELSE p

\* Mutant: no early return for a dead creature.
tick_unguarded(p, now) ==
  LET n == DecayedNeeds(p.needs, now - p.last_tick_time)
      q == AgedPet([p EXCEPT !.needs = n], now)
  IN  [q EXCEPT !.is_alive = IF DeathCondition(n) THEN FALSE ELSE @,
                !.last_updated_at = now,
                !.last_tick_time = now]

\* Mutant: the decay is taken over the time since creation, not since the
\* last tick.
tick_since_creation(p, now) ==
  IF ~p.is_alive
  THEN p
  ELSE LET n == DecayedNeeds(p.needs, now - p.created_at)
           q == AgedPet([p EXCEPT !.needs = n], now)
       IN  [q EXCEPT !.is_alive = IF DeathCondition(n) THEN FALSE ELSE @,
                     !.last_updated_at = now,
                     !.last_tick_time = now]

\* Mutant: a tick that decays nothing leaves the tick time where it was, so
\* that the time it saw counts for the next tick.
tick_carries_time(p, now) ==
  IF ~p.is_alive
  THEN p
  ELSE LET n == DecayedNeeds(p.needs, now - p.last_tick_time)
           q == AgedPet([p EXCEPT !.needs = n], now)
       IN  [q EXCEPT !.is_alive = IF DeathCondition(n) THEN FALSE ELSE @,
                     !.last_updated_at = now,
                     !.last_tick_time = IF n = p.needs THEN @ ELSE now]

\* Pet.tick() called when the wall clock reads now.
tick(p, now) ==
  IF ~p.is_alive
  THEN p
  ELSE LET n == DecayedNeeds(p.needs, now - p.last_tick_time)
           q == AgedPet([p EXCEPT !.needs = n], now)
       IN  [q EXCEPT !.is_alive = IF DeathCondition(n) THEN FALSE ELSE @,
                     !.last_updated_at = now,
                     !.last_tick_time = now]

\* Mutant: the happiness boost is the whole amount, not a fifth of it.
feed_effect_full_boost(n, amount) ==
  [n EXCEPT !.hunger = Max(0, @ - amount),
            !.happiness = Min(100, @ + amount)]

\* The immediate effect of Pet.feed on the needs (before its tick).
feed_effect(n, amount) ==
  [n EXCEPT !.hunger = Max(0, @ - amount),
            !.happiness = Min(100, @ + amount \div 5)]

\* Mutant: a game costs as much energy as it gives happiness.
play_effect_full_cost(n, duration_effect) ==
  [n EXCEPT !.happiness = Min(100, @ + duration_effect),
            !.energy = Max(0, @ - duration_effect)]

\* The immediate effect of Pet.play on the needs (before its tick).
play_effect(n, duration_effect) ==
  [n EXCEPT !.happiness = Min(100, @ + duration_effect),
            !.energy = Max(0, @ - duration_effect \div 2)]

\* The immediate effect of Pet.sleep on the needs (before its tick).
sleep_effect(n, duration_effect) ==
  [n EXCEPT !.energy = Min(100, @ + duration_effect),
            !.hunger = Min(100, @ + duration_effect \div 10)]

\* The immediate effect of Pet.clean on the needs (before its tick).
clean_effect(n, amount) ==
  [n EXCEPT !.cleanliness = Min(100, @ + amount),
            !.happiness = Min(100, @ + amount \div 8)]

\* Mutant: the tick comes first and the effect after it.
play_tick_first(p, duration_effect, now) ==
  IF ~p.is_alive THEN p
  ELSE [tick(p, now) EXCEPT !.needs = play_effect(@, duration_effect)]

\* Mutant: feeding a starved creature brings it back.
feed_revives(p, amount, now) ==
  LET q == [p EXCEPT !.needs = feed_effect(@, amount)]
  IN  IF ~p.is_alive
      THEN [q EXCEPT !.is_alive = ~DeathCondition(q.needs)]
      ELSE tick(q, now)

\* Pet.feed(amount) called when the wall clock reads now.
feed(p, amount, now) ==
  IF ~p.is_alive THEN p
  ELSE tick([p EXCEPT !.needs = feed_effect(@, amount)], now)

\* Pet.play(duration_effect) called when the wall clock reads now.
play(p, duration_effect, now) ==
  IF ~p.is_alive THEN p
  ELSE tick([p EXCEPT !.needs = play_effect(@, duration_effect)], now)

\* Pet.sleep(duration_effect) called when the wall clock reads now.
sleep(p, duration_effect, now) ==
  IF ~p.is_alive THEN p
  ELSE tick([p EXCEPT !.needs = sleep_effect(@, duration_effect)], now)

\* Pet.clean(amount) called when the wall clock reads now.
clean(p, amount, now) ==
  IF ~p.is_alive THEN p
  ELSE tick([p EXCEPT !.needs = clean_effect(@, amount)], now)

----------------------------------------------------------------------------
(* simulation/simulator.py: calculate_reward                               *)

\* round(x, 2) of x given in thousandths; the result is in hundredths, a
\* tie going to the even hundredth.
Round2(t) ==
  LET q == t \div 10
      r == t % 10
  IN  IF r < 5 THEN q
      ELSE IF r > 5 THEN q + 1
      ELSE IF q % 2 = 0 THEN q ELSE q + 1

\* The hunger block, in thousandths: lower is better.
HungerReward(previous_needs, current_needs) ==
  IF current_needs.hunger < previous_needs.hunger
  THEN (previous_needs.hunger - current_needs.hunger) * 200
  ELSE IF current_needs.hunger > 85
          /\ current_needs.hunger > previous_needs.hunger
  THEN -((current_needs.hunger - previous_needs.hunger) * 300)
  ELSE 0

\* The happiness block, in thousandths: higher is better.
HappinessReward(previous_needs, current_needs) ==
  IF current_needs.happiness > previous_needs.happiness
  THEN (current_needs.happiness - previous_needs.happiness) * 300
  ELSE IF current_needs.happiness < 15
          /\ current_needs.happiness < previous_needs.happiness
  THEN -((previous_needs.happiness - current_needs.happiness) * 400)
  ELSE 0

\* Mutant: the low-energy band includes 15.
EnergyReward_band_le(previous_needs, current_needs) ==
  IF current_needs.energy > previous_needs.energy
  THEN (current_needs.energy - previous_needs.energy) * 150
  ELSE IF current_needs.energy <= 15
          /\ current_needs.energy < previous_needs.energy
  THEN -((previous_needs.energy - current_needs.energy) * 200)
  ELSE 0

\* The energy block, in thousandths.
EnergyReward(previous_needs, current_needs) ==
  IF current_needs.energy > previous_needs.energy
  THEN (current_needs.energy - previous_needs.energy) * 150
  ELSE IF current_needs.energy < 15
          /\ current_needs.energy < previous_needs.energy
  THEN -((previous_needs.energy - current_needs.energy) * 200)
  ELSE 0

\* The cleanliness block, in thousandths.
CleanlinessReward(previous_needs, current_needs) ==
  IF current_needs.cleanliness > previous_needs.cleanliness
  THEN (current_needs.cleanliness - previous_needs.cleanliness) * 100
  ELSE IF current_needs.cleanliness < 15
          /\ current_needs.cleanliness < previous_needs.cleanliness
  THEN -((previous_needs.cleanliness - current_needs.cleanliness) * 150)
  ELSE 0

\* The penalties for existing in a bad state, in thousandths.
BadStatePenalty(current_needs) ==
  (IF current_needs.hunger > 80 THEN -500 ELSE 0)
  + (IF current_needs.happiness < 20 THEN -1000 ELSE 0)
  + (IF current_needs.energy < 20 THEN -500 ELSE 0)
  + (IF current_needs.cleanliness < 20 THEN -300 ELSE 0)

\* The reward for being alive and relatively okay, in thousandths.
OkayBonus(current_needs, is_alive_now) ==
  IF /\ is_alive_now
     /\ current_needs.hunger < 50
     /\ current_needs.happiness > 50
     /\ current_needs.energy > 50
     /\ current_needs.cleanliness > 50
  THEN 1000
  ELSE 0

\* Mutant: the "not alive" return of 0 comes before the death penalty.
calculate_reward_dead_first(previous_needs, current_needs, action_taken, is_alive_now, was_alive_before) ==
  IF ~is_alive_now THEN 0
  ELSE Round2(HungerReward(previous_needs, current_needs)
              + HappinessReward(previous_needs, current_needs)
              + EnergyReward(previous_needs, current_needs)
              + CleanlinessReward(previous_needs, current_needs)
              + BadStatePenalty(current_needs)
              + OkayBonus(current_needs, is_alive_now))

\* calculate_reward, in hundredths.
calculate_reward(previous_needs, current_needs, action_taken, is_alive_now, was_alive_before) ==
  IF ~is_alive_now /\ was_alive_before THEN -20000
  ELSE IF ~is_alive_now THEN 0
  ELSE Round2(HungerReward(previous_needs, current_needs)
              + HappinessReward(previous_needs, current_needs)
              + EnergyReward(previous_needs, current_needs)
              + CleanlinessReward(previous_needs, current_needs)
              + BadStatePenalty(current_needs)
              + OkayBonus(current_needs, is_alive_now))

----------------------------------------------------------------------------
(* training/rl_utils.py: the state discretizer                             *)

HUNGER_BINS == <<0, 25, 50, 75, 100>>

HAPPINESS_BINS == <<0, 25, 50, 75, 100>>

ENERGY_BINS == <<0, 25, 50, 75, 100>>

CLEANLINESS_BINS == <<0, 33, 66, 100>>

Returned(i) == [raised |-> FALSE, index |-> i]

\* raise ValueError(...)
ValueError == [raised |-> TRUE, index |-> -1]

\* Mutant: a value beyond the bins is an error instead of being clamped.
AfterBins_strict(value, bins) ==
  IF value = bins[Len(bins)] THEN Returned(Len(bins) - 2)
  ELSE ValueError

\* The statements of discretize_value after its loop.
AfterBins(value, bins) ==
  IF value = bins[Len(bins)] THEN Returned(Len(bins) - 2)
  ELSE IF value >= bins[Len(bins)] THEN Returned(Len(bins) - 2)
  ELSE IF value < bins[1] THEN Returned(0)
  ELSE ValueError

\* Mutant: the upper boundary of a bin belongs to it.
RECURSIVE ScanBins_inclusive(_, _, _)
ScanBins_inclusive(value, bins, i) ==
  IF i >= Len(bins) - 1 THEN AfterBins(value, bins)
  ELSE IF bins[i + 1] <= value /\ value <= bins[i + 2] THEN Returned(i)
  ELSE ScanBins_inclusive(value, bins, i + 1)

\* The loop of discretize_value from the (zero-based) bin i on.
RECURSIVE ScanBins(_, _, _)
ScanBins(value, bins, i) ==
  IF i >= Len(bins) - 1 THEN AfterBins(value, bins)
  ELSE IF bins[i + 1] <= value /\ value < bins[i + 2] THEN Returned(i)
  ELSE ScanBins(value, bins, i + 1)

\* discretize_value(value, bins)
discretize_value(value, bins) == ScanBins(value, bins, 0)

NUM_HUNGER_STATES == Len(HUNGER_BINS) - 1

NUM_HAPPINESS_STATES == Len(HAPPINESS_BINS) - 1

NUM_ENERGY_STATES == Len(ENERGY_BINS) - 1

NUM_CLEANLINESS_STATES == Len(CLEANLINESS_BINS) - 1

TOTAL_NUM_DISCRETE_STATES ==
  NUM_HUNGER_STATES * NUM_HAPPINESS_STATES * NUM_ENERGY_STATES
  * NUM_CLEANLINESS_STATES

\* Mutant: the happiness index is weighted like the energy index.
StateIndex_flat(h_idx, p_idx, e_idx, c_idx) ==
  h_idx * (NUM_HAPPINESS_STATES * NUM_ENERGY_STATES * NUM_CLEANLINESS_STATES)
  + p_idx * NUM_CLEANLINESS_STATES
  + e_idx * NUM_CLEANLINESS_STATES
  + c_idx

\* The flattening of the four bin indices by get_discrete_state_index.
StateIndex(h_idx, p_idx, e_idx, c_idx) ==
  h_idx * (NUM_HAPPINESS_STATES * NUM_ENERGY_STATES * NUM_CLEANLINESS_STATES)
  + p_idx * (NUM_ENERGY_STATES * NUM_CLEANLINESS_STATES)
  + e_idx * NUM_CLEANLINESS_STATES
  + c_idx

\* get_discrete_state_index(pet_needs): a ValueError of discretize_value
\* propagates.
get_discrete_state_index(pet_needs) ==
  LET h == discretize_value(pet_needs.hunger, HUNGER_BINS)
      p == discretize_value(pet_needs.happiness, HAPPINESS_BINS)
      e == discretize_value(pet_needs.energy, ENERGY_BINS)
      c == discretize_value(pet_needs.cleanliness, CLEANLINESS_BINS)
  IN  IF h.raised \/ p.raised \/ e.raised \/ c.raised
      THEN ValueError
      ELSE Returned(StateIndex(h.index, p.index, e.index, c.index))

----------------------------------------------------------------------------
(* training/rl_utils.py: the action space                                  *)

\* ACTIONS (a reserved word of TLA+)
ACTION_NAMES ==
  << "feed_small", "feed_medium", "play_short", "play_long",
     "sleep_action", "clean_action", "do_nothing" >>

NUM_ACTIONS == Len(ACTION_NAMES)

----------------------------------------------------------------------------
(* training/q_learning_agent.py                                            *)
(*                                                                         *)
(* The floating-point numbers of the agent are counted in fixed units, in  *)
(* which the arithmetic of the model is exact: the learning rate and the   *)
(* discount factor in halves, epsilon and its decay in quarters, a reward  *)
(* in hundredths, and a Q-value in 1/QScale of a hundredth, where QScale   *)
(* leaves room for as many successive updates as a behaviour makes.        *)

\* The denominator of learning_rate and discount_factor.
RateDen == 2

\* epsilon = 1.0, and the upper end of random.uniform(0, 1).
EpsilonOne == 4

RECURSIVE Power(_, _)
Power(b, n) == IF n = 0 THEN 1 ELSE b * Power(b, n - 1)

\* An array of numpy: its shape, and its entries other than 0 by their
\* index (a tuple, counted from 0); every other entry is 0.
Array(shape, cells) == [shape |-> shape, cells |-> cells]

NoCells == [idx \in {} |-> 0]

\* np.zeros((nrows, ncols))
Zeros(nrows, ncols) == Array(<<nrows, ncols>>, NoCells)

\* array[idx]
Entry(array, idx) ==
  IF idx \in DOMAIN array.cells THEN array.cells[idx] ELSE 0

\* The array after array[idx] = value.
Store(array, idx, value) ==
  LET others == (DOMAIN array.cells) \ {idx}
      held == IF value = 0 THEN others ELSE others \cup {idx}
  IN  [array EXCEPT !.cells =
         [x \in held |-> IF x = idx THEN value ELSE array.cells[x]]]

\* array[i], a row of a two-dimensional array.
Row(array, i) == [j \in 0..(array.shape[2] - 1) |-> Entry(array, <<i, j>>)]

\* np.max(row)
RowMax(row) == CHOOSE m \in {row[j] : j \in DOMAIN row} :
                 \A j \in DOMAIN row : row[j] <= m

BestActions_first(row) ==
  {j \in DOMAIN row : row[j] = RowMax(row)
                       /\ \A k \in DOMAIN row : row[k] = RowMax(row) => j <= k}

\* np.flatnonzero(row == np.max(row))
BestActions(row) == {j \in DOMAIN row : row[j] = RowMax(row)}

\* What the file at a path holds: nothing (no such file), bytes np.load
\* cannot read, or a saved array.
NoFile == [kind |-> "missing"]

Unreadable == [kind |-> "unreadable"]

Saved(array) == [kind |-> "array", array |-> array]

LoadedTable_any_shape(q_table_load_path, file) ==
  IF q_table_load_path # "None" /\ file.kind = "array"
  THEN file.array
  ELSE Zeros(TOTAL_NUM_DISCRETE_STATES, NUM_ACTIONS)

\* The Q-table QLearningAgent.__init__ ends with, given the load path (or
\* None) and the file there.
LoadedTable(q_table_load_path, file) ==
  IF q_table_load_path # "None" /\ file.kind # "missing"
  THEN IF file.kind = "unreadable"
       THEN Zeros(TOTAL_NUM_DISCRETE_STATES, NUM_ACTIONS)
       ELSE IF file.array.shape # <<TOTAL_NUM_DISCRETE_STATES, NUM_ACTIONS>>
            THEN Zeros(TOTAL_NUM_DISCRETE_STATES, NUM_ACTIONS)
            ELSE file.array
  ELSE Zeros(TOTAL_NUM_DISCRETE_STATES, NUM_ACTIONS)

\* QLearningAgent(...)
QLearningAgent(learning_rate, discount_factor, exploration_rate, exploration_decay_rate, min_exploration_rate, q_table_load_path, file) ==
  [ lr |-> learning_rate,
    gamma |-> discount_factor,
    epsilon |-> exploration_rate,
    epsilon_decay |-> exploration_decay_rate,
    epsilon_min |-> min_exploration_rate,
    num_states |-> TOTAL_NUM_DISCRETE_STATES,
    num_actions |-> NUM_ACTIONS,
    q_table |-> LoadedTable(q_table_load_path, file) ]

\* choose_action takes the exploring branch: is_training and the draw
\* random.uniform(0, 1) is below epsilon.
Explores(a, is_training, draw) == is_training /\ draw < a.epsilon

\* The indices choose_action may return for a draw of random.uniform.
choose_action(a, state_index, is_training, draw) ==
  IF Explores(a, is_training, draw)
  THEN 0..(a.num_actions - 1)
  ELSE BestActions(Row(a.q_table, state_index))

\* The new value update_q_table stores at [state_index, action_index].
NewValue(a, old_value, reward, next_max_q) ==
  old_value
  + (a.lr * (RateDen * reward + a.gamma * next_max_q - RateDen * old_value))
    \div (RateDen * RateDen)

update_q_table_bootstraps_always(a, state_index, action_index, reward, next_state_index, done) ==
  LET old_value == Entry(a.q_table, <<state_index, action_index>>)
      next_max_q == RowMax(Row(a.q_table, next_state_index))
  IN  [a EXCEPT !.q_table =
         Store(@, <<state_index, action_index>>,
               NewValue(a, old_value, reward, next_max_q))]

\* Mutant: the update assigns the new value to the whole row of the state.
update_q_table_row(a, state_index, action_index, reward, next_state_index, done) ==
  LET old_value == Entry(a.q_table, <<state_index, action_index>>)
      next_max_q == IF done THEN 0
                    ELSE RowMax(Row(a.q_table, next_state_index))
      new_value == NewValue(a, old_value, reward, next_max_q)
      row == {<<state_index, j>> : j \in 0..(NUM_ACTIONS - 1)}
      held == IF new_value = 0 THEN (DOMAIN a.q_table.cells) \ row
              ELSE (DOMAIN a.q_table.cells) \cup row
  IN  [a EXCEPT !.q_table.cells =
         [x \in held |-> IF x \in row THEN new_value ELSE a.q_table.cells[x]]]

\* update_q_table(state_index, action_index, reward, next_state_index,
\* done); reward is in the units of a Q-value.
update_q_table(a, state_index, action_index, reward, next_state_index, done) ==
  LET old_value == Entry(a.q_table, <<state_index, action_index>>)
      next_max_q == IF done THEN 0
                    ELSE RowMax(Row(a.q_table, next_state_index))
  IN  [a EXCEPT !.q_table =
         Store(@, <<state_index, action_index>>,
               NewValue(a, old_value, reward, next_max_q))]

\* decay_exploration_rate()
decay_exploration_rate(a) ==
  IF a.epsilon > a.epsilon_min
  THEN LET e == a.epsilon - a.epsilon_decay
       IN  [a EXCEPT !.epsilon = IF e < a.epsilon_min THEN a.epsilon_min
                                 ELSE e]
  ELSE a

\* What save_q_table leaves at the path: np.save writes the table.
save_q_table(a) == Saved(a.q_table)

----------------------------------------------------------------------------
(* The creature driven by its callers.  Every call happens some elapsed    *)
(* time after the previous one; before, mid and call record the creature   *)
(* as the last call found it, the needs that call handed to its tick, and  *)
(* the call itself.                                                        *)

NoCall == [op |-> "none", amount |-> 0, elapsed |-> 0]

\* Amounts a caller may pass: InteractionAmountRequest.amount is any int.
Amounts == {-20, 25, 500}

\* Seconds between two calls in the general specification.
Elapsed == {0, 449, 3600}

\* The long-running specification: a carer that tops every need up.
CareAmounts == {100}

CareElapsed == {0, 10 * SecondsPerHour, 12 * SecondsPerHour}

\* Need values a stored creature may be rebuilt with (PetNeeds accepts
\* every integer of [0,100]).
NeedSamples == {0, 1, 50, 99, 100}

\* A Pet built at time t whose state was then replaced by a stored one, as
\* the service does: needs and alive flag are the stored ones.
StoredPet(t, n, alive) == [NewPet(t) EXCEPT !.needs = n, !.is_alive = alive]

PetAt(p) ==
  /\ pet = p
  /\ clock = p.last_tick_time
  /\ before = p
  /\ mid = p.needs
  /\ call = NoCall
  /\ ncalls = 0

InitPet == PetAt(NewPet(0))

NoReward == [returned |-> FALSE]

NoBins == [returned |-> FALSE]

NoIndex == [returned |-> FALSE]

IdleReward == rw = NoReward

IdleBins == dz = NoBins

IdleIndex == ix = NoIndex

\* No agent is constructed.
NoAgent == [constructed |-> FALSE]

NoAgentCalls == [update_q_table |-> 0, decay_exploration_rate |-> 0]

IdleAgent ==
  /\ agent = NoAgent
  /\ disk = NoFile
  /\ ag = NoCall
  /\ agcalls = NoAgentCalls

\* No training is running.
NoTraining == [pc |-> "none"]

IdleTrain == tr = NoTraining

\* evaluate_agent is not called.
NoEvaluation == [pc |-> "idle"]

\* The pet service is not running.
NoService == [pc |-> "idle"]

\* No episode is running, no evaluation and no service.
IdleEpisode == ep = << >> /\ ev = NoEvaluation /\ sv = NoService

Idle ==
  IdleReward /\ IdleBins /\ IdleIndex /\ IdleAgent /\ IdleTrain /\ IdleEpisode

Init == InitPet /\ Idle

\* What bounds a specification: a number of calls (or none, -1) and a
\* wall-clock horizon in seconds.
Limit(calls, hours) == [calls |-> calls, seconds |-> hours * SecondsPerHour]

\* One call of a Pet method, elapsed seconds after the previous call.
Called(lim, op, amount, elapsed, result, handed) ==
  /\ clock + elapsed <= lim.seconds
  /\ lim.calls >= 0 => ncalls < lim.calls
  /\ ncalls' = IF lim.calls >= 0 THEN ncalls + 1 ELSE ncalls
  /\ clock' = clock + elapsed
  /\ before' = pet
  /\ pet' = result
  /\ mid' = handed
  /\ call' = [op |-> op, amount |-> amount, elapsed |-> elapsed]
  /\ UNCHANGED notpet

Tick(dts, lim) ==
  \E d \in dts :
    /\ Called(lim, "tick", 0, d, tick(pet, clock + d), pet.needs)

Feed(amts, dts, lim) ==
  \E a \in amts, d \in dts :
    /\ Called(lim, "feed", a, d, feed(pet, a, clock + d),
              IF pet.is_alive THEN feed_effect(pet.needs, a) ELSE pet.needs)

Play(amts, dts, lim) ==
  \E a \in amts, d \in dts :
    /\ Called(lim, "play", a, d, play(pet, a, clock + d),
              IF pet.is_alive THEN play_effect(pet.needs, a) ELSE pet.needs)

Sleep(amts, dts, lim) ==
  \E a \in amts, d \in dts :
    /\ Called(lim, "sleep", a, d, sleep(pet, a, clock + d),
              IF pet.is_alive THEN sleep_effect(pet.needs, a) ELSE pet.needs)

Clean(amts, dts, lim) ==
  \E a \in amts, d \in dts :
    /\ Called(lim, "clean", a, d, clean(pet, a, clock + d),
              IF pet.is_alive THEN clean_effect(pet.needs, a) ELSE pet.needs)

Next ==
  \/ Tick(Elapsed, Limit(MaxCalls, MaxHours))
  \/ Feed(Amounts, Elapsed, Limit(MaxCalls, MaxHours))
  \/ Play(Amounts, Elapsed, Limit(MaxCalls, MaxHours))
  \/ Sleep(Amounts, Elapsed, Limit(MaxCalls, MaxHours))
  \/ Clean(Amounts, Elapsed, Limit(MaxCalls, MaxHours))

Spec == Init /\ [][Next]_vars

\* The creature under a carer over several days: no bound on the calls.
NextCare ==
  \/ Tick(CareElapsed, Limit(-1, MaxHours))
  \/ Feed(CareAmounts, CareElapsed, Limit(-1, MaxHours))
  \/ Play(CareAmounts, CareElapsed, Limit(-1, MaxHours))
  \/ Sleep(CareAmounts, CareElapsed, Limit(-1, MaxHours))
  \/ Clean(CareAmounts, CareElapsed, Limit(-1, MaxHours))

SpecCare == Init /\ [][NextCare]_vars

\* A creature rebuilt with any stored need vector, then ticked.
InitAny ==
  /\ \E n \in [hunger : NeedSamples, happiness : NeedSamples,
                energy : NeedSamples, cleanliness : NeedSamples],
         alive \in BOOLEAN : PetAt(StoredPet(0, n, alive))
  /\ Idle

NextAny == Tick(Elapsed, Limit(MaxCalls, MaxHours))

SpecAny == InitAny /\ [][NextAny]_vars

\* A creature ticked again and again, each tick less than 450 seconds after
\* the one before, for as long as the horizon allows.
ShortElapsed == {0, 449}

NextShortTicks == Tick(ShortElapsed, Limit(-1, MaxHours))

SpecShortTicks == Init /\ [][NextShortTicks]_vars

----------------------------------------------------------------------------
(* The reward function applied to one step.                                *)

\* Need values around every threshold of the reward rules, after and
\* before the step.
RewardNow ==
  [hunger : {49, 50, 81, 86}, happiness : {14, 19, 50, 51},
   energy : {14, 15, 20, 51}, cleanliness : {14, 19, 20, 51}]

RewardBefore ==
  [hunger : {30, 86, 90}, happiness : {14, 60},
   energy : {15, 70}, cleanliness : {19, 100}]

\* action_taken: a method name, or None.
RewardActions == {"feed", "None"}

InitReward ==
  /\ \E p \in RewardBefore, c \in RewardNow, a \in RewardActions,
         now \in BOOLEAN, was \in BOOLEAN :
       rw = [returned |-> FALSE, previous_needs |-> p, current_needs |-> c,
             action_taken |-> a, is_alive_now |-> now,
             was_alive_before |-> was]
  /\ InitPet /\ IdleBins /\ IdleIndex /\ IdleAgent /\ IdleTrain /\ IdleEpisode

CalculateReward ==
  /\ ~rw.returned
  /\ rw' = [returned |-> TRUE, previous_needs |-> rw.previous_needs,
            current_needs |-> rw.current_needs,
            action_taken |-> rw.action_taken,
            is_alive_now |-> rw.is_alive_now,
            was_alive_before |-> rw.was_alive_before,
            reward |-> calculate_reward(rw.previous_needs, rw.current_needs,
                                        rw.action_taken, rw.is_alive_now,
                                        rw.was_alive_before)]
  /\ UNCHANGED notrw

SpecReward == InitReward /\ [][CalculateReward]_vars

----------------------------------------------------------------------------
(* The discretizer applied to two values of one need.                      *)

BinsOf(need) ==
  CASE need = "hunger" -> HUNGER_BINS
    [] need = "happiness" -> HAPPINESS_BINS
    [] need = "energy" -> ENERGY_BINS
    [] need = "cleanliness" -> CLEANLINESS_BINS

NeedNames == {"hunger", "happiness", "energy", "cleanliness"}

\* The integers tried: [0,100] and ValueSlack more at each end.
Values == (0 - ValueSlack)..(100 + ValueSlack)

InitDiscretize ==
  /\ \E need \in NeedNames, v1 \in Values, v2 \in Values :
       /\ v1 <= v2
       /\ dz = [returned |-> FALSE, need |-> need, v1 |-> v1, v2 |-> v2]
  /\ InitPet /\ IdleReward /\ IdleIndex /\ IdleAgent /\ IdleTrain /\ IdleEpisode

Discretize ==
  /\ ~dz.returned
  /\ dz' = [returned |-> TRUE, need |-> dz.need, v1 |-> dz.v1, v2 |-> dz.v2,
            r1 |-> discretize_value(dz.v1, BinsOf(dz.need)),
            r2 |-> discretize_value(dz.v2, BinsOf(dz.need))]
  /\ UNCHANGED notdz

SpecDiscretize == InitDiscretize /\ [][Discretize]_vars

----------------------------------------------------------------------------
(* The state index of two need vectors.                                    *)

\* One value in every bin of every need.
IndexNeeds ==
  [hunger : {10, 25, 60, 100}, happiness : {0, 30, 74, 75},
   energy : {24, 49, 50, 99}, cleanliness : {32, 33, 100}]

\* Other values of the same bins, some of them outside [0,100].
IndexNeedsToo ==
  [hunger : {0, 49, 50, 101}, happiness : {-1, 25, 50, 100},
   energy : {0, 25, 74, 75}, cleanliness : {0, 65, 66}]

InitIndex ==
  /\ \E n1 \in IndexNeeds, n2 \in IndexNeedsToo :
       ix = [returned |-> FALSE, n1 |-> n1, n2 |-> n2]
  /\ InitPet /\ IdleReward /\ IdleBins /\ IdleAgent /\ IdleTrain /\ IdleEpisode

GetDiscreteStateIndex ==
  /\ ~ix.returned
  /\ ix' = [returned |-> TRUE, n1 |-> ix.n1, n2 |-> ix.n2,
            i1 |-> get_discrete_state_index(ix.n1),
            i2 |-> get_discrete_state_index(ix.n2)]
  /\ UNCHANGED notix

SpecIndex == InitIndex /\ [][GetDiscreteStateIndex]_vars

----------------------------------------------------------------------------
(* The agent driven by its callers: constructed from a checkpoint, then    *)
(* asked for actions, updated and saved.                                   *)

\* The numbers of epochs a training is asked for (num_episodes_to_train).
EpochSamples == {0, 1, 2}

\* The longest chain of updates a behaviour makes on one table: by the
\* direct callers of the agent, or by a training.
QDepth ==
  Max(MaxUpdates,
      MaxLogLen * (CHOOSE n \in EpochSamples : \A m \in EpochSamples : m <= n))

\* A Q-value of 1/100 (one unit of reward), in the units of a Q-value.
QScale == Power(RateDen * RateDen, QDepth)

\* Hyperparameters given to the constructor: learning rate and discount
\* factor in halves, epsilon, its decay and its minimum in quarters.
Hyper(lr, gamma, epsilon, decay, min) ==
  [ lr |-> lr, gamma |-> gamma, epsilon |-> epsilon, epsilon_decay |-> decay,
    epsilon_min |-> min ]

HyperSamples ==
  { Hyper(1, 1, 2, 1, 0), Hyper(2, 2, 4, 1, 1), Hyper(1, 2, 0, 1, 0) }

\* Saved tables of the right shape: ties for the maximum in rows 0 and 191,
\* a row of negative values, rows of zeros.
TableA ==
  Array(<<192, 7>>,
        [idx \in ({0, 191} \X (0..6)) |->
           IF idx[1] = 0 THEN (IF idx[2] \in {2, 5} THEN 3 * QScale
                               ELSE QScale)
           ELSE (IF idx[2] = 6 THEN 0 - QScale ELSE 0 - 2 * QScale)])

TableB ==
  Array(<<192, 7>>, [idx \in ({191} \X {0, 6}) |-> 5 * QScale])

\* A saved array of another shape, with some entries other than 0.
Misshapen(shape) ==
  Array(shape, [idx \in {[k \in DOMAIN shape |-> 0]} |-> QScale])

\* The load path given to the constructor, and the file there.
Checkpoint(path, file) == [path |-> path, file |-> file]

Checkpoints ==
  { Checkpoint("None", NoFile),
    Checkpoint("None", Saved(TableA)),
    Checkpoint("q_table.npy", NoFile),
    Checkpoint("q_table.npy", Unreadable),
    Checkpoint("q_table.npy", Saved(TableA)),
    Checkpoint("q_table.npy", Saved(TableB)),
    Checkpoint("q_table.npy", Saved(Misshapen(<<192, 6>>))),
    Checkpoint("q_table.npy", Saved(Misshapen(<<191, 7>>))),
    Checkpoint("q_table.npy", Saved(Misshapen(<<7, 192>>))),
    Checkpoint("q_table.npy", Saved(Misshapen(<<1344>>))),
    Checkpoint("q_table.npy", Saved(Misshapen(<<192, 7, 1>>))) }

Constructed(h, c) ==
  /\ agent = QLearningAgent(h.lr, h.gamma, h.epsilon, h.epsilon_decay,
                            h.epsilon_min, c.path, c.file)
  /\ disk = c.file
  /\ ag = [op |-> "__init__", q_table_load_path |-> c.path, file |-> c.file]
  /\ agcalls = NoAgentCalls

InitAgent ==
  /\ \/ \E h \in HyperSamples : Constructed(h, Checkpoint("None", NoFile))
     \/ \E c \in Checkpoints : Constructed(Hyper(1, 1, 2, 1, 0), c)
  /\ InitPet /\ IdleReward /\ IdleBins /\ IdleIndex /\ IdleTrain
  /\ IdleEpisode

\* The state indices the callers pass.
StateSamples == {0, 191}

\* Draws of random.uniform(0, 1), in quarters; none is made when
\* is_training is false.
Draws == {0, 2}

NoDraw == {EpsilonOne}

\* Rewards passed to update_q_table, in hundredths.
RewardSamples == {-200, 100}

\* (state, action, next state, done) passed to update_q_table.
Step(s, a, n, d) ==
  [state_index |-> s, action_index |-> a, next_state_index |-> n, done |-> d]

StepSamples ==
  { Step(0, 2, 191, FALSE), Step(191, 6, 0, TRUE), Step(0, 2, 191, TRUE) }

ChooseAction ==
  /\ \E s \in StateSamples, is_training \in BOOLEAN :
       \E draw \in (IF is_training THEN Draws ELSE NoDraw) :
       \E a \in choose_action(agent, s, is_training, draw) :
         ag' = [op |-> "choose_action", state_index |-> s,
                is_training |-> is_training,
                explored |-> Explores(agent, is_training, draw),
                candidates |-> choose_action(agent, s, is_training, draw),
                result |-> a]
  /\ UNCHANGED <<agent, disk, agcalls, notagent>>

UpdateQTable ==
  /\ agcalls.update_q_table < MaxUpdates
  /\ \E t \in StepSamples, reward \in RewardSamples :
       /\ agent' = update_q_table(agent, t.state_index, t.action_index,
                                  reward * QScale, t.next_state_index, t.done)
       /\ ag' = [op |-> "update_q_table", step |-> t, reward |-> reward,
                 before |-> agent]
  /\ agcalls' = [agcalls EXCEPT !.update_q_table = @ + 1]
  /\ UNCHANGED <<disk, notagent>>

SaveQTable ==
  /\ disk' = save_q_table(agent)
  /\ ag' = [op |-> "save_q_table"]
  /\ UNCHANGED <<agent, agcalls, notagent>>

NextAgent == ChooseAction \/ UpdateQTable \/ SaveQTable

SpecAgent == InitAgent /\ [][NextAgent]_vars

\* An agent constructed with any exploration rate, decay step and minimum
\* (the constructor checks none of them), then decayed.
EpsilonSamples == {0, 1, 2, 3, EpsilonOne, 6}

DecaySamples == {0, 1, 3}

MinSamples == {0, 1, 2, 5}

InitEpsilon ==
  /\ \E e \in EpsilonSamples, d \in DecaySamples, m \in MinSamples :
       Constructed(Hyper(1, 1, e, d, m), Checkpoint("None", NoFile))
  /\ InitPet /\ IdleReward /\ IdleBins /\ IdleIndex /\ IdleTrain
  /\ IdleEpisode

DecayExplorationRate ==
  /\ agcalls.decay_exploration_rate < MaxDecays
  /\ agent' = decay_exploration_rate(agent)
  /\ ag' = [op |-> "decay_exploration_rate", before |-> agent]
  /\ agcalls' = [agcalls EXCEPT !.decay_exploration_rate = @ + 1]
  /\ UNCHANGED <<disk, notagent>>

SpecEpsilon == InitEpsilon /\ [][DecayExplorationRate]_vars

\* An agent built from a checkpoint and then used through all four of its
\* methods, in any order.
TableCheckpoints ==
  { Checkpoint("None", NoFile),
    Checkpoint("q_table.npy", Saved(TableA)) }

InitTable ==
  /\ \E c \in TableCheckpoints : Constructed(Hyper(1, 1, 2, 1, 0), c)
  /\ InitPet /\ IdleReward /\ IdleBins /\ IdleIndex /\ IdleTrain
  /\ IdleEpisode

NextTable ==
  ChooseAction \/ UpdateQTable \/ SaveQTable \/ DecayExplorationRate

SpecTable == InitTable /\ [][NextTable]_vars

----------------------------------------------------------------------------
(* training/train_rl_agent.py: train_agent                                 *)

\* A transition record of the log.  action is a name or "None" (null);
\* pet_id is an identifier or "" (absent); state and next_state are state
\* dictionaries; reward is in hundredths.
Transition(pet_id, step, state, action, reward, next_state, is_done) ==
  [ pet_id |-> pet_id, step |-> step, state |-> state, action |-> action,
    reward |-> reward, next_state |-> next_state, is_done |-> is_done ]

\* A state dictionary with a needs dictionary, and one without.
StateDict(needs) == [needs |-> needs]

NoNeedsDict == [id |-> "pet"]

\* get_pet_needs_from_state_dict(state_dict)
get_pet_needs_from_state_dict(state_dict) ==
  IF "needs" \in DOMAIN state_dict
  THEN [raised |-> FALSE, needs |-> state_dict.needs]
  ELSE [raised |-> TRUE]

\* The discrete index of a state dictionary, or the ValueError raised on
\* the way.
IndexOfStateDict(state_dict) ==
  LET needs == get_pet_needs_from_state_dict(state_dict)
  IN  IF needs.raised THEN ValueError
      ELSE get_discrete_state_index(needs.needs)

\* ACTIONS.index(name), counted from 0; a ValueError when the name is not
\* in the list.
ActionIndex(name) ==
  IF \E i \in 1..Len(ACTION_NAMES) : ACTION_NAMES[i] = name
  THEN Returned((CHOOSE i \in 1..Len(ACTION_NAMES) :
                   /\ ACTION_NAMES[i] = name
                   /\ \A j \in 1..(i - 1) : ACTION_NAMES[j] # name) - 1)
  ELSE ValueError

\* Mutant: every action name outside the catalog is trained as do_nothing.
MappedAction_unknown_is_do_nothing(action_name) ==
  IF ~ActionIndex(action_name).raised THEN ActionIndex(action_name)
  ELSE ActionIndex("do_nothing")

\* The action index train_agent updates for an action name, or the
\* ValueError that makes it skip the transition.
MappedAction(action_name) ==
  IF ~ActionIndex(action_name).raised THEN ActionIndex(action_name)
  ELSE IF action_name = "invalid_action" \/ action_name = "None"
       THEN ActionIndex("do_nothing")
       ELSE ValueError

\* None in [state_dict, action_name, reward, next_state_dict, done]: of the
\* five, the logs tried leave only the action null.
HasMissingData(transition) == transition.action = "None"

\* What train_agent does with one transition: skip it, or update a cell.
Skipped(why) ==
  [outcome |-> why, state_index |-> -1, action_index |-> -1,
   next_state_index |-> -1]

Outcome(transition) ==
  IF HasMissingData(transition) THEN Skipped("missing data")
  ELSE LET state_idx == IndexOfStateDict(transition.state)
           next_state_idx == IndexOfStateDict(transition.next_state)
           action_idx == MappedAction(transition.action)
       IN  IF state_idx.raised \/ next_state_idx.raised
           THEN Skipped("discretization")
           ELSE IF action_idx.raised THEN Skipped("action")
           ELSE [outcome |-> "updated", state_index |-> state_idx.index,
                 action_index |-> action_idx.index,
                 next_state_index |-> next_state_idx.index]

\* The position of an episode in episodes_data (a dict, which keeps the
\* order of insertion), or 0.
EpisodeAt(episodes_data, pet_id) ==
  IF \E i \in 1..Len(episodes_data) : episodes_data[i].pet_id = pet_id
  THEN CHOOSE i \in 1..Len(episodes_data) : episodes_data[i].pet_id = pet_id
  ELSE 0

\* The grouping loop of train_agent, from the i-th transition on.  A
\* transition is held by its position in the log.
RECURSIVE GroupFrom(_, _, _)
GroupFrom(all_transitions, i, episodes_data) ==
  IF i > Len(all_transitions) THEN episodes_data
  ELSE LET pet_id == all_transitions[i].pet_id
           at == EpisodeAt(episodes_data, pet_id)
       IN  IF pet_id = "" THEN GroupFrom(all_transitions, i + 1, episodes_data)
           ELSE IF at = 0
           THEN GroupFrom(all_transitions, i + 1,
                  Append(episodes_data,
                         [pet_id |-> pet_id, transitions |-> <<i>>]))
           ELSE GroupFrom(all_transitions, i + 1,
                  [episodes_data EXCEPT ![at].transitions = Append(@, i)])

\* Into a list sorted by step, a transition after those of its step.
RECURSIVE InsertByStep(_, _, _)
InsertByStep(all_transitions, sorted, i) ==
  IF sorted = << >> THEN <<i>>
  ELSE IF all_transitions[sorted[Len(sorted)]].step <= all_transitions[i].step
       THEN Append(sorted, i)
       ELSE Append(InsertByStep(all_transitions,
                                SubSeq(sorted, 1, Len(sorted) - 1), i),
                   sorted[Len(sorted)])

RECURSIVE SortFrom(_, _, _, _)
SortFrom(all_transitions, list, k, sorted) ==
  IF k > Len(list) THEN sorted
  ELSE SortFrom(all_transitions, list, k + 1,
                InsertByStep(all_transitions, sorted, list[k]))

\* Mutant: the episodes keep the order of the log.
SortByStep_unsorted(all_transitions, list) == list

\* list.sort(key=lambda x: x.get("step", 0)): ascending and stable.
SortByStep(all_transitions, list) ==
  SortFrom(all_transitions, list, 1, << >>)

\* episodes_data after grouping and sorting.
EpisodesData(all_transitions) ==
  LET grouped == GroupFrom(all_transitions, 1, << >>)
  IN  [e \in 1..Len(grouped) |->
         [grouped[e] EXCEPT !.transitions = SortByStep(all_transitions, @)]]

\* Mutant: no periodic save, only the one after the last epoch.
SavesAfterEpoch_last_only(epoch, num_episodes_to_train) ==
  epoch + 1 = num_episodes_to_train

\* (epoch + 1) % 10 == 0 or (epoch + 1) == num_episodes_to_train
SavesAfterEpoch(epoch, num_episodes_to_train) ==
  (epoch + 1) % 10 = 0 \/ epoch + 1 = num_episodes_to_train

----------------------------------------------------------------------------
(* A training run over a log.                                              *)

A0 == [hunger |-> 50, happiness |-> 50, energy |-> 100, cleanliness |-> 70]

A1 == [hunger |-> 30, happiness |-> 40, energy |-> 60, cleanliness |-> 20]

\* Need vectors the decay engine should never produce.
TooHungry == [A0 EXCEPT !.hunger = 110]

TooTired == [A0 EXCEPT !.energy = -5]

\* The records the logs are made of: two episodes, steps, actions of the
\* catalog and others, a null action, a record without pet_id, needs
\* outside [0,100], a state without needs.
Records ==
  { Transition("a", 0, StateDict(A0), "feed_small", 100, StateDict(A1), FALSE),
    Transition("a", 1, StateDict(A1), "do_nothing", -200, StateDict(A0), TRUE),
    Transition("b", 0, StateDict(A0), "feed_small", -200, StateDict(A0), FALSE),
    Transition("b", 1, StateDict(TooHungry), "play_short", 100,
               StateDict(TooTired), FALSE),
    Transition("a", 2, StateDict(A1), "None", 100, StateDict(A0), FALSE),
    Transition("b", 2, StateDict(A0), "invalid_action", 100, StateDict(A1),
               FALSE),
    Transition("a", 3, StateDict(A1), "feed", 100, StateDict(A0), FALSE),
    Transition("", 0, StateDict(A0), "feed_small", 100, StateDict(A1), FALSE),
    Transition("a", 4, NoNeedsDict, "feed_small", 100, StateDict(A0), FALSE) }

Logs == UNION {[1..n -> Records] : n \in 0..MaxLogLen}

\* The hyperparameters of the trainings tried; no table is loaded.
TrainHyper == Hyper(1, 1, EpsilonOne, 1, 1)

\* train_agent is called: nothing is saved yet.  saves lists the calls of
\* save_q_table: the number of epochs completed at each.
TrainCalled(logs, epochs, hyper) ==
  /\ \E log \in logs, n \in epochs :
       tr = [pc |-> "start", all_transitions |-> log,
             num_episodes_to_train |-> n, hyper |-> hyper,
             episodes_data |-> << >>,
             epoch |-> 0, episode |-> 0, position |-> 0, visited |-> << >>,
             saves |-> << >>]
  /\ agent = NoAgent
  /\ disk = NoFile
  /\ ag = NoCall
  /\ agcalls = NoAgentCalls
  /\ InitPet /\ IdleReward /\ IdleBins /\ IdleIndex /\ IdleEpisode

InitTrain == TrainCalled(Logs, EpochSamples, TrainHyper)

\* train_agent up to its epoch loop.
TrainStart ==
  /\ tr.pc = "start"
  /\ IF tr.all_transitions = << >>
     THEN /\ tr' = [tr EXCEPT !.pc = "returned"]
          /\ UNCHANGED agent
     ELSE LET episodes_data == EpisodesData(tr.all_transitions)
          IN  /\ agent' = QLearningAgent(tr.hyper.lr, tr.hyper.gamma,
                             tr.hyper.epsilon, tr.hyper.epsilon_decay,
                             tr.hyper.epsilon_min, "None", disk)
              /\ tr' = [tr EXCEPT
                          !.episodes_data = episodes_data,
                          !.pc = IF episodes_data = << >> THEN "returned"
                                 ELSE IF tr.num_episodes_to_train = 0
                                      THEN "finish"
                                      ELSE "transition",
                          !.episode = 1, !.position = 1]
  /\ UNCHANGED <<disk, nottrain>>

\* One pass of the innermost loop of train_agent.
ProcessTransition ==
  /\ tr.pc = "transition"
  /\ LET episode == tr.episodes_data[tr.episode]
         i == episode.transitions[tr.position]
         transition == tr.all_transitions[i]
         o == Outcome(transition)
         last == tr.position = Len(episode.transitions)
     IN  /\ agent' = IF o.outcome = "updated"
                      THEN update_q_table(agent, o.state_index, o.action_index,
                                          transition.reward * QScale,
                                          o.next_state_index,
                                          transition.is_done)
                      ELSE agent
         /\ tr' = [tr EXCEPT
                     !.visited = Append(@, [epoch |-> tr.epoch,
                                            transition |-> i, did |-> o]),
                     !.position = IF last THEN 1 ELSE @ + 1,
                     !.episode = IF last THEN @ + 1 ELSE @,
                     !.pc = IF last /\ tr.episode = Len(tr.episodes_data)
                            THEN "end of epoch" ELSE @]
  /\ UNCHANGED <<disk, nottrain>>

\* num_steps_in_epoch: the updates made so far in the current epoch.
num_steps_in_epoch ==
  Cardinality({k \in DOMAIN tr.visited :
                 /\ tr.visited[k].epoch = tr.epoch
                 /\ tr.visited[k].did.outcome = "updated"})

\* Mutant: epsilon is decayed only after an epoch that made an update.
EndEpoch_decays_if_steps ==
  /\ tr.pc = "end of epoch"
  /\ agent' = IF num_steps_in_epoch > 0 THEN decay_exploration_rate(agent)
              ELSE agent
  /\ agcalls' = [agcalls EXCEPT !.decay_exploration_rate =
                              IF num_steps_in_epoch > 0 THEN @ + 1 ELSE @]
  /\ IF SavesAfterEpoch(tr.epoch, tr.num_episodes_to_train)
     THEN /\ disk' = save_q_table(agent')
          /\ tr' = [tr EXCEPT
                      !.saves = Append(@, [at |-> "epoch",
                                           epochs |-> tr.epoch + 1]),
                      !.epoch = @ + 1, !.episode = 1,
                      !.pc = IF tr.epoch + 1 < tr.num_episodes_to_train
                             THEN "transition" ELSE "finish"]
     ELSE /\ disk' = disk
          /\ tr' = [tr EXCEPT
                      !.epoch = @ + 1, !.episode = 1,
                      !.pc = IF tr.epoch + 1 < tr.num_episodes_to_train
                             THEN "transition" ELSE "finish"]
  /\ UNCHANGED <<petvars, rw, dz, ix, ag, ep, ev, sv>>

\* The end of one pass of the epoch loop: decay, and the periodic save.
EndEpoch ==
  /\ tr.pc = "end of epoch"
  /\ agent' = decay_exploration_rate(agent)
  /\ agcalls' = [agcalls EXCEPT !.decay_exploration_rate = @ + 1]
  /\ IF SavesAfterEpoch(tr.epoch, tr.num_episodes_to_train)
     THEN /\ disk' = save_q_table(agent')
          /\ tr' = [tr EXCEPT
                      !.saves = Append(@, [at |-> "epoch",
                                           epochs |-> tr.epoch + 1]),
                      !.epoch = @ + 1, !.episode = 1,
                      !.pc = IF tr.epoch + 1 < tr.num_episodes_to_train
                             THEN "transition" ELSE "finish"]
     ELSE /\ disk' = disk
          /\ tr' = [tr EXCEPT
                      !.epoch = @ + 1, !.episode = 1,
                      !.pc = IF tr.epoch + 1 < tr.num_episodes_to_train
                             THEN "transition" ELSE "finish"]
  /\ UNCHANGED <<petvars, rw, dz, ix, ag, ep, ev, sv>>

\* The final save of train_agent.
TrainFinish ==
  /\ tr.pc = "finish"
  /\ disk' = save_q_table(agent)
  /\ tr' = [tr EXCEPT !.pc = "returned",
                       !.saves = Append(@, [at |-> "end", epochs |-> tr.epoch])]
  /\ UNCHANGED <<agent, nottrain>>

NextTrain == TrainStart \/ ProcessTransition \/ EndEpoch \/ TrainFinish

SpecTrain == InitTrain /\ [][NextTrain]_vars

\* Long trainings on short logs: up to twenty epochs on at most one record,
\* with learning rate 1 and discount factor 1.
LongEpochSamples == {0, 1, 9, 10, 11, 20}

ShortLogs == {<< >>} \cup [1..1 -> Records]

LongTrainHyper == Hyper(RateDen, RateDen, EpsilonOne, 1, 1)

InitTrainLong == TrainCalled(ShortLogs, LongEpochSamples, LongTrainHyper)

SpecTrainLong == InitTrainLong /\ [][NextTrain]_vars

----------------------------------------------------------------------------
(* simulation/agents.py and simulation/simulator.py: run_episode           *)

\* The longest episode explored step by step.
MaxSteps == 3

\* max_steps of the episodes generate_synthetic_data runs.
SyntheticSteps == 500

\* An action tuple (action_name, {key: value}); key "None" is the empty dict.
Act(name, key, value) == [name |-> name, key |-> key, value |-> value]

\* choose_action returned None.
NoAction == Act("None", "None", 0)

\* The proactive branches of NurturingAgent.choose_action whose condition
\* holds; each is taken or passed over as its random draw falls.
ProactiveCare(needs) ==
  {a \in {Act("feed", "amount", 20), Act("play", "duration_effect", 15),
          Act("clean", "amount", 30), Act("sleep", "duration_effect", 40)} :
     \/ a.name = "feed" /\ needs.hunger > 50
     \/ a.name = "play" /\ needs.happiness < 60
     \/ a.name = "clean" /\ needs.cleanliness < 70
     \/ a.name = "sleep" /\ needs.energy < 50 /\ needs.happiness > 70}

\* Mutant: the energy rule is tried before the hunger rule.
NurturingAgent_energy_first(pet_state) ==
  IF ~pet_state.is_alive THEN {NoAction}
  ELSE IF pet_state.needs.energy < 20
  THEN {Act("sleep", "duration_effect", 60)}
  ELSE IF pet_state.needs.hunger > 80 THEN {Act("feed", "amount", 30)}
  ELSE IF pet_state.needs.happiness < 30
  THEN {Act("play", "duration_effect", 25)}
  ELSE IF pet_state.needs.cleanliness < 30 THEN {Act("clean", "amount", 50)}
  ELSE ProactiveCare(pet_state.needs) \cup {NoAction}

\* NurturingAgent.choose_action: the tuples it can return for pet_state.
NurturingAgent(pet_state) ==
  IF ~pet_state.is_alive THEN {NoAction}
  ELSE IF pet_state.needs.hunger > 80 THEN {Act("feed", "amount", 30)}
  ELSE IF pet_state.needs.energy < 20
  THEN {Act("sleep", "duration_effect", 60)}
  ELSE IF pet_state.needs.happiness < 30
  THEN {Act("play", "duration_effect", 25)}
  ELSE IF pet_state.needs.cleanliness < 30 THEN {Act("clean", "amount", 50)}
  ELSE ProactiveCare(pet_state.needs) \cup {NoAction}

\* The tuples RandomAgent.choose_action draws from for a live pet, the
\* amounts sampled from the ranges of random.randint.
RandomDraws ==
  {NoAction, Act("feed", "amount", 10), Act("feed", "amount", 30),
   Act("play", "duration_effect", 25), Act("sleep", "duration_effect", 70),
   Act("clean", "amount", 20)}

\* RandomAgent.choose_action: the tuples it can return for pet_state.
RandomAgent(pet_state) ==
  IF ~pet_state.is_alive THEN {NoAction} ELSE RandomDraws

\* What another subclass of BaseAgent returns: nothing, a long sleep, a
\* long game, a name Pet does not have, a Pet attribute that is no method.
OtherAgent(pet_state) ==
  {NoAction, Act("sleep", "duration_effect", 500),
   Act("play", "duration_effect", 500), Act("dance", "amount", 1),
   Act("state", "None", 0)}

\* An agent of one of the kinds "nurturing", "random", "other".  stream is
\* the sequence of results a seeded random generator makes RandomAgent
\* return; NoStream is a generator that was not seeded.
Agent(kind, stream) == [kind |-> kind, stream |-> stream]

NoStream == << >>

\* Mutant: the agent's draws do not come from the seeded generator.
ChooseFrom_unseeded(an_agent, pet_state, step) ==
  IF an_agent.kind = "nurturing" THEN NurturingAgent(pet_state)
  ELSE IF an_agent.kind = "other" THEN OtherAgent(pet_state)
  ELSE RandomAgent(pet_state)

\* an_agent.choose_action(pet_state) at the given step of the loop.
ChooseFrom(an_agent, pet_state, step) ==
  IF an_agent.kind = "nurturing" THEN NurturingAgent(pet_state)
  ELSE IF an_agent.kind = "other" THEN OtherAgent(pet_state)
  ELSE IF an_agent.stream = NoStream \/ ~pet_state.is_alive
  THEN RandomAgent(pet_state)
  ELSE {an_agent.stream[step + 1]}

\* The fields of PetState, for the Pet p created with this id and name.
PetState(p, id, name) ==
  [ id |-> id,
    name |-> name,
    created_at |-> p.created_at,
    last_updated_at |-> p.last_updated_at,
    needs |-> p.needs,
    is_alive |-> p.is_alive,
    age_days |-> p.age_days ]

\* pet.state, the object the Pet mutates in place.
Live == [ref |-> "live"]

\* An object of its own holding the value v.
Copy(v) == [ref |-> "copy", value |-> v]

\* What reading object o gives while the live state is live.
Deref(o, live) == IF o.ref = "live" THEN live ELSE o.value

\* Mutant: no copy is made.
model_copy_alias(o, live) == o

\* o.model_copy(deep=True)
model_copy(o, live) == Copy(Deref(o, live))

\* Mutant: the dump keeps the object it was given.
model_dump_view(o, live) == o

\* o.model_dump(mode='json')
model_dump(o, live) == Copy(Deref(o, live))

\* The attributes of a Pet object that hasattr finds.
PetAttributes ==
  {"state", "_last_tick_time", "_last_age_update_time",
   "_hunger_increase_rate_per_hour", "_happiness_decay_rate_per_hour",
   "_energy_decay_rate_per_hour", "_cleanliness_decay_rate_per_hour",
   "tick", "feed", "play", "sleep", "clean"}

\* The keyword parameter of each care method.
Parameter ==
  [ feed |-> "amount", play |-> "duration_effect",
    sleep |-> "duration_effect", clean |-> "amount" ]

\* The default of each care method's parameter.
Default == [feed |-> 25, play |-> 20, sleep |-> 50, clean |-> 40]

Done(p) == [raised |-> FALSE, pet |-> p]

\* The call raised TypeError and left the pet as it was.
TypeError(p) == [raised |-> TRUE, pet |-> p]

\* pet.<name>(amount) for a care method.
Care(p, name, amount, now) ==
  IF name = "feed" THEN feed(p, amount, now)
  ELSE IF name = "play" THEN play(p, amount, now)
  ELSE IF name = "sleep" THEN sleep(p, amount, now)
  ELSE clean(p, amount, now)

\* getattr(pet, a.name)(**params) for a name that hasattr accepts.
Call(p, a, now) ==
  IF a.name \in DOMAIN Parameter
  THEN IF a.key = Parameter[a.name]
       THEN Done(Care(p, a.name, a.value, now))
       ELSE IF a.key = "None"
       THEN Done(Care(p, a.name, Default[a.name], now))
       ELSE TypeError(p)
  ELSE IF a.name = "tick" /\ a.key = "None" THEN Done(tick(p, now))
  ELSE TypeError(p)

\* The action part of one iteration of the loop of run_episode.
Applied(p, a, now) ==
  IF a = NoAction THEN Done(tick(p, now))
  ELSE IF a.name \in PetAttributes THEN Call(p, a, now)
  ELSE Done(tick(p, now))

\* The action name a record carries.
RecordedAction(a) ==
  IF a = NoAction THEN "None"
  ELSE IF a.name \in PetAttributes THEN a.name
  ELSE "invalid_action"

\* The action_params a record carries.
RecordedParams(a) ==
  IF a = NoAction THEN [key |-> "None", value |-> 0]
  ELSE [key |-> a.key, value |-> a.value]

\* run_episode(an_agent, pet_name, max_steps) has created its Pet, with this
\* id, when the clock read t; seconds are the times a step can take.
Episode(an_agent, pet_name, max_steps, id, t, seconds) ==
  [ pc |-> "loop",
    agent |-> an_agent,
    pet_name |-> pet_name,
    max_steps |-> max_steps,
    step |-> 0,
    pet |-> NewPet(t),
    pet_id |-> id,
    now |-> t,
    seconds |-> seconds,
    episode_data |-> << >> ]

\* pet.state of the episode e.
StateOf(e) == PetState(e.pet, e.pet_id, e.pet_name)

\* Mutant: the loop does not stop at a dead pet.
Stops_at_cap_only(e) == e.step >= e.max_steps

\* The loop of run_episode is over: range(max_steps) is exhausted or one
\* of the two breaks is taken.
Stops(e) == e.step >= e.max_steps \/ ~e.pet.is_alive

\* One iteration of the loop: the agent returns a, and the clock reads
\* d seconds more when the pet ticks.
Iteration(e, a, d) ==
  LET now == e.now + d
      pre == StateOf(e)
      current_pet_state_obj == model_copy(Live, pre)
      previous_needs_obj == Deref(current_pet_state_obj, pre).needs
      was_alive_before_action == Deref(current_pet_state_obj, pre).is_alive
      applied == Applied(e.pet, a, now)
      post == PetState(applied.pet, e.pet_id, e.pet_name)
      next_pet_state_obj == Live
      reward == calculate_reward(previous_needs_obj, post.needs,
                                 RecordedAction(a), post.is_alive,
                                 was_alive_before_action)
      record == [ step |-> e.step,
                  state |-> model_dump(current_pet_state_obj, post),
                  action |-> RecordedAction(a),
                  action_params |-> RecordedParams(a),
                  reward |-> reward,
                  next_state |-> model_dump(next_pet_state_obj, post),
                  is_done |-> ~post.is_alive,
                  pet_id |-> Deref(current_pet_state_obj, post).id,
                  timestamp |-> now ]
  IN  IF applied.raised
      THEN [e EXCEPT !.pc = "raised", !.now = now]
      ELSE [e EXCEPT !.pet = applied.pet,
                     !.now = now,
                     !.step = @ + 1,
                     !.episode_data = Append(@, record)]

\* The seconds that pass between two ticks of a simulated episode: the
\* loop does not wait, so no need loses a whole point in one step.
StepSeconds == {0, 449}

\* The ids uuid4 gives.
PetIds == {"id1", "id2"}

\* The iteration of the loop of run r.
EpisodeStep(r) ==
  /\ ep[r].pc = "loop"
  /\ ~Stops(ep[r])
  /\ \E d \in ep[r].seconds :
       \E a \in ChooseFrom(ep[r].agent, StateOf(ep[r]), ep[r].step) :
         ep' = [ep EXCEPT ![r] = Iteration(@, a, d)]
  /\ UNCHANGED notepisode

\* Run r leaves the loop and returns episode_data.
EpisodeReturn(r) ==
  /\ ep[r].pc = "loop"
  /\ Stops(ep[r])
  /\ ep' = [ep EXCEPT ![r].pc = "returned"]
  /\ UNCHANGED notepisode

NextEpisode == \E r \in DOMAIN ep : EpisodeStep(r) \/ EpisodeReturn(r)

EpisodeAgents ==
  {Agent("nurturing", NoStream), Agent("random", NoStream),
   Agent("other", NoStream)}

\* run_episode is called with any agent and any max_steps.
InitEpisode ==
  /\ \E an_agent \in EpisodeAgents, max_steps \in 0..MaxSteps, id \in PetIds :
       ep = <<Episode(an_agent, "SimPet_1", max_steps, id, 0, StepSeconds)>>
  /\ InitPet /\ IdleReward /\ IdleBins /\ IdleIndex /\ IdleAgent /\ IdleTrain
  /\ ev = NoEvaluation /\ sv = NoService

SpecEpisode == InitEpisode /\ [][NextEpisode]_vars

\* The results a seed can make RandomAgent return in an episode.
Streams == [1..MaxSteps -> RandomDraws]

\* The clock readings at which a second run can create its Pet, counted
\* from the end of the first run.
RunGaps == {0, 7}

\* random.seed(s), then run_episode with the Random Agent.
InitSeeded ==
  /\ \E stream \in Streams, max_steps \in {MaxSteps - 1, MaxSteps} :
       ep = <<Episode(Agent("random", stream), "SimPet_1", max_steps, "id1", 0, {0})>>
  /\ InitPet /\ IdleReward /\ IdleBins /\ IdleIndex /\ IdleAgent /\ IdleTrain
  /\ ev = NoEvaluation /\ sv = NoService

\* random.seed(s) with the same seed, then the same call of run_episode.
SecondRun ==
  /\ Len(ep) = 1
  /\ ep[1].pc = "returned"
  /\ \E id \in PetIds, gap \in RunGaps :
       ep' = Append(ep, Episode(ep[1].agent, ep[1].pet_name, ep[1].max_steps, id, ep[1].now + gap, StepSeconds))
  /\ UNCHANGED notepisode

NextSeeded == NextEpisode \/ SecondRun

SpecSeeded == InitSeeded /\ [][NextSeeded]_vars

\* The seconds a step of a long episode takes.
NurtureSeconds == {449}

\* run_episode(NurturingAgent(...), pet_name, max_steps=500), as
\* generate_synthetic_data calls it.
InitNurture ==
  /\ ep = <<Episode(Agent("nurturing", NoStream), "SimPet_1", SyntheticSteps, "id1", 0, NurtureSeconds)>>
  /\ InitPet /\ IdleReward /\ IdleBins /\ IdleIndex /\ IdleAgent /\ IdleTrain
  /\ ev = NoEvaluation /\ sv = NoService

SpecNurture == InitNurture /\ [][NextEpisode]_vars

----------------------------------------------------------------------------
(* A scripted agent asked once about a creature in any state, and its      *)
(* choice applied to the creature at once.                                 *)

\* Need values around every threshold of the agents' rules.
ChoiceNeeds ==
  [hunger : {0, 50, 51, 80, 81, 99, 100},
   happiness : {0, 1, 29, 30, 59, 60, 70, 71},
   energy : {0, 1, 19, 20, 49, 50},
   cleanliness : {0, 1, 29, 30, 69, 70}]

InitChoice ==
  /\ \E n \in ChoiceNeeds, alive \in BOOLEAN : PetAt(StoredPet(0, n, alive))
  /\ Idle

\* choose_action(pet.state) of the agent of this kind, and the chosen
\* action applied as run_episode applies it, no time having passed.
Chooses(kind) ==
  /\ ncalls = 0
  /\ \E a \in ChooseFrom(Agent(kind, NoStream), PetState(pet, "id", "name"), 0) :
       /\ pet' = Applied(pet, a, clock).pet
       /\ call' = [op |-> "choose_action", agent |-> kind, action |-> a,
                   amount |-> a.value, elapsed |-> 0]
  /\ before' = pet
  /\ mid' = pet.needs
  /\ ncalls' = 1
  /\ UNCHANGED <<clock, notpet>>

NurturingChooses == Chooses("nurturing")

RandomChooses == Chooses("random")

NextChoice == NurturingChooses \/ RandomChooses

SpecChoice == InitChoice /\ [][NextChoice]_vars

----------------------------------------------------------------------------
(* The simulator's output given to the trainer: an episode of a scripted   *)
(* agent is written out as JSON lines and train_agent is called on the     *)
(* file.                                                                   *)

\* json.loads(json.dumps(record)) for a record of the run e: the fields
\* train_agent reads.
LoadedRecord(record, e) ==
  Transition(record.pet_id, record.step,
             StateDict(Deref(record.state, StateOf(e)).needs), record.action,
             record.reward,
             StateDict(Deref(record.next_state, StateOf(e)).needs), record.is_done)

\* load_jsonl_data on the file generate_synthetic_data wrote for run e.
LoadedLog(e) ==
  [k \in DOMAIN e.episode_data |-> LoadedRecord(e.episode_data[k], e)]

ScriptedAgents == {Agent("nurturing", NoStream), Agent("random", NoStream)}

InitSimulated ==
  /\ \E an_agent \in ScriptedAgents, max_steps \in 0..MaxSteps :
       ep = <<Episode(an_agent, "SimPet_1", max_steps, "id1", 0, StepSeconds)>>
  /\ InitPet /\ IdleReward /\ IdleBins /\ IdleIndex /\ IdleAgent /\ IdleTrain
  /\ ev = NoEvaluation /\ sv = NoService

\* train_agent is called on the log of the returned episode.
TrainOnSimulated ==
  /\ tr.pc = "none"
  /\ ep[1].pc = "returned"
  /\ \E n \in EpochSamples :
       tr' = [pc |-> "start", all_transitions |-> LoadedLog(ep[1]),
              num_episodes_to_train |-> n, hyper |-> TrainHyper,
              episodes_data |-> << >>,
              epoch |-> 0, episode |-> 0, position |-> 0, visited |-> << >>,
              saves |-> << >>]
  /\ UNCHANGED <<petvars, rw, dz, ix, agentvars, ep, ev, sv>>

NextSimulated == NextEpisode \/ TrainOnSimulated \/ NextTrain

SpecSimulated == InitSimulated /\ [][NextSimulated]_vars

----------------------------------------------------------------------------
(* training/evaluate_rl_agent.py                                           *)

\* The longest evaluation episode explored.
MaxEvalSteps == 7

\* rl_utils.ACTION_MAPPING: the Pet method and the parameter of each action
\* of the catalog; method "None" is the special case of do_nothing.
ACTION_MAPPING ==
  [ feed_small |-> Act("feed", "amount", 15),
    feed_medium |-> Act("feed", "amount", 30),
    play_short |-> Act("play", "duration_effect", 15),
    play_long |-> Act("play", "duration_effect", 30),
    sleep_action |-> Act("sleep", "duration_effect", 50),
    clean_action |-> Act("clean", "amount", 40),
    do_nothing |-> NoAction ]

\* The action part of one iteration of the loop of run_evaluation_episode.
EvalApplied(p, action_name, now) ==
  IF action_name \in DOMAIN ACTION_MAPPING
       /\ ACTION_MAPPING[action_name].name # "None"
  THEN IF ACTION_MAPPING[action_name].name \in PetAttributes
       THEN Call(p, ACTION_MAPPING[action_name], now)
       ELSE Done(tick(p, now))
  ELSE Done(tick(p, now))

\* run_evaluation_episode(an_agent, pet_name, max_steps) has created its
\* Pet when the clock read t.
EvaluationEpisode(pet_name, max_steps, t) ==
  [ pet_name |-> pet_name,
    max_steps |-> max_steps,
    pet |-> NewPet(t),
    now |-> t,
    step |-> 0,
    broke |-> FALSE,
    episode_rewards |-> 0,
    episode_steps |-> 0,
    action_log |-> << >> ]

\* One iteration of the loop, in which the agent chooses action_idx and
\* the clock reads d seconds more when the pet ticks.
EvalIteration(e, state_idx, action_idx, d) ==
  LET now == e.now + d
      previous_needs_obj == e.pet.needs
      was_alive_before_action == e.pet.is_alive
      action_name == ACTION_NAMES[action_idx + 1]
      applied == EvalApplied(e.pet, action_name, now)
      reward == calculate_reward(previous_needs_obj, applied.pet.needs,
                                 action_name, applied.pet.is_alive,
                                 was_alive_before_action)
  IN  IF state_idx.raised
      THEN [e EXCEPT !.broke = TRUE]
      ELSE [e EXCEPT !.pet = applied.pet,
                     !.now = now,
                     !.step = @ + 1,
                     !.episode_rewards = @ + reward,
                     !.episode_steps = @ + 1,
                     !.action_log = Append(@, action_name)]

\* The loop of run_evaluation_episode is over: range(max_steps) is
\* exhausted or one of its three breaks is taken.
EvalStops(e) == e.step >= e.max_steps \/ ~e.pet.is_alive \/ e.broke

\* Mutant: an episode survived if it ran all its steps.
EvaluationResult_ran_to_cap(e) ==
  [ pet_name |-> e.pet_name,
    total_steps |-> e.episode_steps,
    total_reward |-> e.episode_rewards,
    survived |-> e.episode_steps = e.max_steps,
    final_happiness |-> e.pet.needs.happiness,
    final_hunger |-> e.pet.needs.hunger,
    action_log |-> e.action_log ]

\* The dictionary run_evaluation_episode returns.
EvaluationResult(e) ==
  [ pet_name |-> e.pet_name,
    total_steps |-> e.episode_steps,
    total_reward |-> e.episode_rewards,
    survived |-> e.pet.is_alive,
    final_happiness |-> e.pet.needs.happiness,
    final_hunger |-> e.pet.needs.hunger,
    action_log |-> e.action_log ]

\* No episode of the evaluation is running.
NoEpisode == [pet_name |-> "None"]

RECURSIVE SumOf(_, _)
\* sum(res[field] for res in results)
SumOf(results, field) ==
  IF results = << >> THEN 0
  ELSE results[1][field] + SumOf(Tail(results), field)

\* np.mean of the given field: a sum over a count, nan for no results.
Mean(results, field) ==
  IF results = << >> THEN [nan |-> TRUE, sum |-> 0, count |-> 0]
  ELSE [nan |-> FALSE, sum |-> SumOf(results, field), count |-> Len(results)]

\* The summary evaluate_agent logs; survival_rate is in percent, over
\* num_eval_episodes.
Summary(results, total_survived, num_eval_episodes) ==
  [ avg_steps |-> Mean(results, "total_steps"),
    avg_reward |-> Mean(results, "total_reward"),
    survival_rate |-> [times_100 |-> 100 * total_survived,
                       over |-> num_eval_episodes] ]

NoSummary == [avg_steps |-> "None"]

\* evaluate_agent(q_table_path, num_eval_episodes, max_steps_per_episode)
\* is called, the file at q_table_path being file.
EvaluateAgent(file, num_eval_episodes, max_steps_per_episode) ==
  [ pc |-> IF file.kind = "missing" THEN "returned" ELSE "loop",
    agent |-> IF file.kind = "missing" THEN NoAgent
              ELSE QLearningAgent(1, 1, 0, 1, 0, "q_table.npy", file),
    num_eval_episodes |-> num_eval_episodes,
    max_steps_per_episode |-> max_steps_per_episode,
    i |-> 0,
    episode |-> NoEpisode,
    now |-> 0,
    all_episode_results |-> << >>,
    total_survived |-> 0,
    summary |-> NoSummary ]

\* A saved table whose best action is play_long in every state.
PlayfulTable ==
  Array(<<192, 7>>, [idx \in ((0..191) \X {3}) |-> QScale])

\* A saved table in which play_long and do_nothing tie in every state.
PlayOrRestTable ==
  Array(<<192, 7>>, [idx \in ((0..191) \X {3, 6}) |-> QScale])

EvalFiles == {NoFile, Saved(PlayfulTable), Saved(PlayOrRestTable)}

EvalEpisodeCounts == {0, 1, 2}

\* The seconds a step of an evaluation episode takes.
EvalSeconds == {449}

InitEvaluation ==
  /\ \E file \in EvalFiles, n \in EvalEpisodeCounts, max_steps \in 0..MaxEvalSteps :
       ev = EvaluateAgent(file, n, max_steps)
  /\ ep = << >> /\ sv = NoService
  /\ InitPet /\ IdleReward /\ IdleBins /\ IdleIndex /\ IdleAgent /\ IdleTrain

\* evaluate_agent calls run_evaluation_episode for its next episode.
EvalEpisodeStart ==
  /\ ev.pc = "loop"
  /\ ev.i < ev.num_eval_episodes
  /\ ev' = [ev EXCEPT !.pc = "episode",
                      !.episode = EvaluationEpisode("EvalPet", ev.max_steps_per_episode, ev.now)]
  /\ UNCHANGED notevaluation

\* One iteration of the loop of run_evaluation_episode.
EvalStep ==
  /\ ev.pc = "episode"
  /\ ~EvalStops(ev.episode)
  /\ LET state_idx == get_discrete_state_index(ev.episode.pet.needs)
     IN  \E d \in EvalSeconds :
           \E action_idx \in IF state_idx.raised THEN {0} ELSE choose_action(ev.agent, state_idx.index, FALSE, 0) :
             ev' = [ev EXCEPT !.episode = EvalIteration(@, state_idx, action_idx, d)]
  /\ UNCHANGED notevaluation

\* run_evaluation_episode returns its result to evaluate_agent.
EvalEpisodeReturn ==
  /\ ev.pc = "episode"
  /\ EvalStops(ev.episode)
  /\ LET episode_result == EvaluationResult(ev.episode)
     IN  ev' = [ev EXCEPT !.pc = "loop",
                          !.i = @ + 1,
                          !.now = ev.episode.now,
                          !.episode = NoEpisode,
                          !.all_episode_results = Append(@, episode_result),
                          !.total_survived = IF episode_result.survived THEN @ + 1 ELSE @]
  /\ UNCHANGED notevaluation

\* evaluate_agent computes its summary, or raises ZeroDivisionError.
EvalSummary ==
  /\ ev.pc = "loop"
  /\ ev.i >= ev.num_eval_episodes
  /\ ev' = IF ev.num_eval_episodes = 0
           THEN [ev EXCEPT !.pc = "raised"]
           ELSE [ev EXCEPT !.pc = "returned",
                           !.summary = Summary(ev.all_episode_results, ev.total_survived, ev.num_eval_episodes)]
  /\ UNCHANGED notevaluation

NextEvaluation ==
  EvalEpisodeStart \/ EvalStep \/ EvalEpisodeReturn \/ EvalSummary

SpecEvaluation == InitEvaluation /\ [][NextEvaluation]_vars

----------------------------------------------------------------------------
(* app/services/pet_service.py                                             *)

\* The number of service operations explored.
MaxRequests == 4

\* The operations that can run at the same time.
Requests == {1, 2}

\* An operation of the service on the pet: a care request with its amount,
\* a state fetch (get_pet_state_by_id) or the periodic global tick.
ServiceOp(kind, name, amount) == [kind |-> kind, name |-> name, amount |-> amount]

ServiceOps ==
  { ServiceOp("care", "feed", 25), ServiceOp("care", "play", 200),
    ServiceOp("care", "sleep", 50), ServiceOp("care", "clean", 40),
    ServiceOp("fetch", "tick", 0), ServiceOp("global_tick", "tick", 0) }

\* PetState(**pet_data) accepts the stored record: the needs are within
\* the limits of the fields of PetNeeds.
Validates(pet_data) ==
  \A need \in DOMAIN pet_data.needs :
    pet_data.needs[need] >= 0 /\ pet_data.needs[need] <= 100

\* Mutant: the tick time is restored from the stored last_updated_at.
PetInstance_restores_clock(pet_data, now) ==
  [ needs |-> pet_data.needs,
    is_alive |-> pet_data.is_alive,
    age_days |-> pet_data.age_days,
    created_at |-> pet_data.created_at,
    last_updated_at |-> pet_data.last_updated_at,
    last_tick_time |-> pet_data.last_updated_at,
    last_age_update_time |-> now ]

\* The Pet instance rebuilt from a stored record when the clock reads now:
\* Pet.__init__ starts its tick time and its age time afresh.
PetInstance(pet_data, now) ==
  [ needs |-> pet_data.needs,
    is_alive |-> pet_data.is_alive,
    age_days |-> pet_data.age_days,
    created_at |-> pet_data.created_at,
    last_updated_at |-> pet_data.last_updated_at,
    last_tick_time |-> now,
    last_age_update_time |-> now ]

\* The operation finds a pet to work on: the global tick looks for live
\* pets only, and a record that does not validate is given up.
Loads(op, pet_data) ==
  /\ Validates(pet_data)
  /\ op.kind = "global_tick" => pet_data.is_alive

\* The pet after the operation's call on the instance.
Performed(op, p, now) ==
  IF op.kind = "care" THEN Care(p, op.name, op.amount, now)
  ELSE tick(p, now)

NoRequest == [pc |-> "idle"]

\* The seconds between the load of an operation and its call on the pet.
ServiceSeconds == {0, 449}

\* create_new_pet has stored a new pet when the clock read 0.
InitService ==
  /\ sv = [ pc |-> "serving",
            db |-> PetState(NewPet(0), "id1", "Pet"),
            now |-> 0,
            started |-> 0,
            requests |-> [r \in Requests |-> NoRequest] ]
  /\ ep = << >> /\ ev = NoEvaluation
  /\ InitPet /\ IdleReward /\ IdleBins /\ IdleIndex /\ IdleAgent /\ IdleTrain

\* Operation op starts as request r and awaits its load of the stored
\* record; an operation that finds no live pet to work on ends there.
ServiceLoad(r) ==
  /\ sv.pc = "serving"
  /\ sv.requests[r].pc = "idle"
  /\ sv.started < MaxRequests
  /\ \E op \in ServiceOps :
       sv' = [sv EXCEPT
                !.started = @ + 1,
                !.requests[r] =
                  IF Loads(op, sv.db) /\ sv.db.is_alive
                  THEN [pc |-> "loaded", op |-> op, pet_instance |-> PetInstance(sv.db, sv.now)]
                  ELSE NoRequest]
  /\ UNCHANGED notservice

\* Request r calls the pet and awaits _save_pet_state_to_db, which sets
\* every field of the stored record.
ServiceSave(r) ==
  /\ sv.pc = "serving"
  /\ sv.requests[r].pc = "loaded"
  /\ \E d \in ServiceSeconds :
       LET p == Performed(sv.requests[r].op, sv.requests[r].pet_instance, sv.now + d)
       IN  sv' = [sv EXCEPT !.now = @ + d,
                            !.db = PetState(p, sv.db.id, sv.db.name),
                            !.requests[r] = NoRequest]
  /\ UNCHANGED notservice

NextService == \E r \in Requests : ServiceLoad(r) \/ ServiceSave(r)

SpecService == InitService /\ [][NextService]_vars

\* The service with time passing between its requests: the seconds from
\* the end of one request to the start of the next (none while another
\* request is under way).
ServiceGaps == {0, 12 * SecondsPerHour}

ServiceLoadLater(r) ==
  /\ sv.pc = "serving"
  /\ sv.requests[r].pc = "idle"
  /\ sv.started < MaxRequests
  /\ \E op \in ServiceOps :
     \E gap \in (IF \A q \in Requests : sv.requests[q].pc = "idle"
                 THEN ServiceGaps ELSE {0}) :
       sv' = [sv EXCEPT
                !.started = @ + 1,
                !.now = @ + gap,
                !.requests[r] =
                  IF Loads(op, sv.db) /\ sv.db.is_alive
                  THEN [pc |-> "loaded", op |-> op, pet_instance |-> PetInstance(sv.db, sv.now + gap)]
                  ELSE NoRequest]
  /\ UNCHANGED notservice

\* Request r calls the pet d seconds after its own load, and saves.
ServiceSaveSoon(r) ==
  /\ sv.pc = "serving"
  /\ sv.requests[r].pc = "loaded"
  /\ \E d \in ServiceSeconds :
       LET now == sv.requests[r].pet_instance.last_tick_time + d
           p == Performed(sv.requests[r].op, sv.requests[r].pet_instance, now)
       IN  /\ now >= sv.now
           /\ sv' = [sv EXCEPT !.now = now,
                                !.db = PetState(p, sv.db.id, sv.db.name),
                                !.requests[r] = NoRequest]
  /\ UNCHANGED notservice

NextServiceLater == \E r \in Requests : ServiceLoadLater(r) \/ ServiceSaveSoon(r)

SpecServiceLater == InitService /\ [][NextServiceLater]_vars

----------------------------------------------------------------------------
(* The need-decay engine: properties.                                      *)

\* C1: after any sequence of calls, with any integer amounts, each of the
\* four needs is in [0,100].
C1_NeedsInRange ==
  /\ pet.needs.hunger \in 0..100
  /\ pet.needs.happiness \in 0..100
  /\ pet.needs.energy \in 0..100
  /\ pet.needs.cleanliness \in 0..100

\* C2: once the alive flag is false it stays false, whatever is called.
C2_NoResurrection == [][~pet.is_alive => ~pet'.is_alive]_vars

\* A dead creature has been fed.
C2_Witness == call.op = "feed" /\ ~before.is_alive /\ ~pet.is_alive

\* C3: after every completed call on a creature that started from the
\* defaults, alive implies hunger < 100 and the other needs > 0; and a tick
\* handed a live creature with hunger 100 or another need at 0 leaves it
\* dead, even when no time has elapsed.
C3_AliveImpliesHealthy ==
  call.op # "none" =>
    /\ pet.is_alive =>
          /\ pet.needs.hunger < 100
          /\ pet.needs.energy > 0
          /\ pet.needs.happiness > 0
          /\ pet.needs.cleanliness > 0
    /\ ( /\ before.is_alive
         /\ \/ mid.hunger = 100
            \/ mid.energy = 0
            \/ mid.happiness = 0
            \/ mid.cleanliness = 0 ) => ~pet.is_alive

\* A tick with zero elapsed time was handed a live creature whose hunger
\* was exactly 100.
C3_Witness ==
  /\ call.op # "none" /\ call.elapsed = 0
  /\ before.is_alive /\ mid.hunger = 100 /\ mid.energy > 0
  /\ mid.happiness > 0 /\ mid.cleanliness > 0
  /\ ~pet.is_alive

\* C4: any call on a creature that is not alive leaves the whole creature
\* unchanged: needs, age, last-update timestamp and the internal timers.
C4_DeadIsFrozen ==
  (call.op # "none" /\ ~before.is_alive) =>
    /\ pet.needs = before.needs
    /\ pet.age_days = before.age_days
    /\ pet.last_updated_at = before.last_updated_at
    /\ pet.last_tick_time = before.last_tick_time
    /\ pet.last_age_update_time = before.last_age_update_time
    /\ pet.is_alive = before.is_alive

\* A dead creature was ticked an hour after it was last touched.
C4_Witness ==
  /\ call.op = "tick" /\ call.elapsed > 0 /\ ~before.is_alive
  /\ clock > before.last_tick_time

\* C5: whatever the need vector, a tick with zero elapsed time leaves the
\* four needs as they were (so any number of them in a row does).
C5_ZeroTickKeepsNeeds ==
  (call.op = "tick" /\ call.elapsed = 0) => pet.needs = before.needs

\* A live creature, decayed by an earlier tick, was ticked again at once.
C5_Witness ==
  /\ call.op = "tick" /\ call.elapsed = 0 /\ before.is_alive
  /\ clock > 0 /\ ncalls >= 2
  /\ pet.needs.hunger > 0

\* C6: while the creature is alive its age is the number of full 24-hour
\* periods between construction and its latest tick, however the time was
\* split over the ticks.
C6_AgeIsFullDays ==
  pet.is_alive =>
    pet.age_days = (pet.last_tick_time - pet.created_at) \div SecondsPerDay

\* Two days old, with a remainder below 24 hours carried by the age timer.
C6_Witness ==
  /\ pet.is_alive /\ pet.age_days = 2
  /\ pet.last_age_update_time < pet.last_tick_time

\* C7: feed(amount) on a live creature hands its tick hunger
\* max(0, hunger - amount) and happiness min(100, happiness + amount div 5)
\* with energy and cleanliness untouched; the default creature fed 25 gets
\* hunger 25 and happiness 55 and, with no decay due yet, is alive with
\* exactly these needs when the call returns.
C7_FeedEffect ==
  (call.op = "feed" /\ before.is_alive) =>
    /\ mid.hunger = Max(0, before.needs.hunger - call.amount)
    /\ mid.happiness = Min(100, before.needs.happiness + call.amount \div 5)
    /\ mid.energy = before.needs.energy
    /\ mid.cleanliness = before.needs.cleanliness
    /\ (before.needs = PetNeeds /\ call.amount = 25) =>
          /\ mid = [hunger |-> 25, happiness |-> 55,
                    energy |-> 100, cleanliness |-> 70]
          /\ clock - before.last_tick_time < 450 =>
                (pet.needs = mid /\ pet.is_alive)

\* The default creature was fed 25 as its first call.
C7_Witness ==
  /\ ncalls = 1 /\ call.op = "feed" /\ call.amount = 25
  /\ before = NewPet(0)
  /\ pet.needs.hunger = 25 /\ pet.needs.happiness = 55 /\ pet.is_alive

----------------------------------------------------------------------------
(* The reward function: properties.                                        *)

\* C8: the reward is exactly -200 whenever the creature was alive before
\* the step and is dead after it, whatever the needs and the action.
C8_DeathPenalty ==
  (rw.returned /\ rw.was_alive_before /\ ~rw.is_alive_now) =>
    rw.reward = -20000

\* A creature died on a step in which a need improved.
C8_Witness ==
  /\ rw.returned /\ rw.was_alive_before /\ ~rw.is_alive_now
  /\ rw.current_needs.hunger < rw.previous_needs.hunger
  /\ rw.reward = -20000

\* One need's improvement/worsening term in hundredths: gain per point
\* improved, else loss per point worsened while the value is in its band.
NeedTerm(improved, worsened, in_band, gain, loss) ==
  IF improved > 0 THEN gain * improved
  ELSE IF in_band /\ worsened > 0 THEN -(loss * worsened)
  ELSE 0

\* The reward of a step that leaves the creature alive, as the sum of the
\* rules, in hundredths.
RuleSum(p, c) ==
  NeedTerm(p.hunger - c.hunger, c.hunger - p.hunger, c.hunger > 85, 20, 30)
  + NeedTerm(c.happiness - p.happiness, p.happiness - c.happiness,
             c.happiness < 15, 30, 40)
  + NeedTerm(c.energy - p.energy, p.energy - c.energy, c.energy < 15, 15, 20)
  + NeedTerm(c.cleanliness - p.cleanliness, p.cleanliness - c.cleanliness,
             c.cleanliness < 15, 10, 15)
  - (IF c.hunger > 80 THEN 50 ELSE 0)
  - (IF c.happiness < 20 THEN 100 ELSE 0)
  - (IF c.energy < 20 THEN 50 ELSE 0)
  - (IF c.cleanliness < 20 THEN 30 ELSE 0)
  + (IF c.hunger < 50 /\ c.happiness > 50 /\ c.energy > 50
        /\ c.cleanliness > 50 THEN 100 ELSE 0)

\* C9: with the creature alive after the step, the reward is the sum of
\* the per-need terms, the flat bad-band penalties and the healthy-band
\* bonus, in hundredths.
C9_RewardIsRuleSum ==
  (rw.returned /\ rw.is_alive_now) =>
    rw.reward = RuleSum(rw.previous_needs, rw.current_needs)

\* A step with an improvement, an in-band worsening and a flat penalty.
C9_Witness ==
  /\ rw.returned /\ rw.is_alive_now
  /\ rw.current_needs.hunger < rw.previous_needs.hunger
  /\ rw.current_needs.happiness = 14 /\ rw.previous_needs.happiness = 60
  /\ rw.current_needs.energy = 51 /\ rw.current_needs.cleanliness = 19
  /\ rw.reward # 0

----------------------------------------------------------------------------
(* The discretizer: properties.                                            *)

\* C10: for every integer, inside [0,100] or not, and each configured
\* boundary list, discretize_value returns (it does not raise) an index in
\* [0, number of bins - 1], and v1 <= v2 gives index(v1) <= index(v2).
C10_BinInRangeMonotone ==
  dz.returned =>
    /\ ~dz.r1.raised /\ ~dz.r2.raised
    /\ dz.r1.index \in 0..(Len(BinsOf(dz.need)) - 2)
    /\ dz.r2.index \in 0..(Len(BinsOf(dz.need)) - 2)
    /\ dz.v1 <= dz.v2 => dz.r1.index <= dz.r2.index

\* A value below 0 and a value above 100 were discretized.
C10_Witness ==
  /\ dz.returned /\ dz.v1 < 0 /\ dz.v2 > 100
  /\ dz.r1.index = 0 /\ dz.r2.index = Len(BinsOf(dz.need)) - 2

\* The boundaries that hold a value: bins[i] <= value < bins[i+1],
\* counted from 0.
BinsHolding(value, bins) ==
  {i \in 0..(Len(bins) - 2) : bins[i + 1] <= value /\ value < bins[i + 2]}

BinOfValue(value, bins, r) ==
  /\ ~r.raised
  /\ BinsHolding(value, bins) # {} =>
        BinsHolding(value, bins) = {r.index}
  /\ value >= bins[Len(bins)] => r.index = Len(bins) - 2
  /\ value < bins[1] => r.index = 0

\* C11: discretize_value returns the one i with
\* boundaries[i] <= value < boundaries[i+1] when there is one, the last bin
\* when value >= the final boundary and 0 when value < the first boundary.
C11_BinOfValue ==
  dz.returned =>
    /\ BinOfValue(dz.v1, BinsOf(dz.need), dz.r1)
    /\ BinOfValue(dz.v2, BinsOf(dz.need), dz.r2)

\* A value on an inner boundary and the final boundary were discretized.
C11_Witness ==
  /\ dz.returned /\ dz.need = "cleanliness"
  /\ dz.v1 = 33 /\ dz.r1.index = 1
  /\ dz.v2 = 100 /\ dz.r2.index = 2

\* The bin indices of a need vector.
BinsOfNeeds(n) ==
  << discretize_value(n.hunger, HUNGER_BINS).index,
     discretize_value(n.happiness, HAPPINESS_BINS).index,
     discretize_value(n.energy, ENERGY_BINS).index,
     discretize_value(n.cleanliness, CLEANLINESS_BINS).index >>

\* The indices the sampled need vectors are mapped to.
IndicesReached ==
  {get_discrete_state_index(n).index : n \in IndexNeeds \cup IndexNeedsToo}

\* C12: the state index is h*48 + p*12 + e*3 + c over the four bin
\* indices, lies in [0,192), is shared by two need vectors exactly when
\* their four bin indices agree, and every index of [0,192) is reached.
C12_MixedRadixIndex ==
  ix.returned =>
    /\ ~ix.i1.raised /\ ~ix.i2.raised
    /\ LET b == BinsOfNeeds(ix.n1)
       IN  ix.i1.index = b[1] * 48 + b[2] * 12 + b[3] * 3 + b[4]
    /\ LET b == BinsOfNeeds(ix.n2)
       IN  ix.i2.index = b[1] * 48 + b[2] * 12 + b[3] * 3 + b[4]
    /\ ix.i1.index \in 0..191 /\ ix.i2.index \in 0..191
    /\ (ix.i1.index = ix.i2.index) <=>
         (BinsOfNeeds(ix.n1) = BinsOfNeeds(ix.n2))
    /\ IndicesReached = 0..191 /\ TOTAL_NUM_DISCRETE_STATES = 192

\* Two different need vectors of the same bins got the last index.
C12_Witness ==
  /\ ix.returned /\ ix.n1 # ix.n2
  /\ ix.i1.index = 191 /\ ix.i2.index = 191

----------------------------------------------------------------------------
(* The Q-learning agent: properties.                                       *)

\* The indices of the maximal values of a row.
ArgMax(row) == {j \in DOMAIN row : \A k \in DOMAIN row : row[k] <= row[j]}

\* C14: choose_action returns an index in [0, number of actions); called
\* with exploration disabled (is_training false, or epsilon 0) it draws its
\* result among all the actions whose value is the maximum of the state's
\* row, and among no others.
C14_ChooseAction ==
  ag.op = "choose_action" =>
    /\ ag.result \in 0..(NUM_ACTIONS - 1)
    /\ (~ag.is_training \/ agent.epsilon <= 0) =>
         LET row == Row(agent.q_table, ag.state_index)
         IN  /\ ~ag.explored
             /\ ag.candidates = ArgMax(row)
             /\ ag.result \in ag.candidates
             /\ \A j \in 0..(NUM_ACTIONS - 1) : row[j] <= row[ag.result]

\* An exploiting call returned the second of two tied maxima.
C14_Witness ==
  /\ ag.op = "choose_action"
  /\ ~ag.is_training
  /\ ag.state_index = 0
  /\ ag.candidates = {2, 5}
  /\ ag.result = 5
  /\ agent.epsilon > 0

\* C15: update_q_table with done true moves Q[state, action] by the
\* learning rate times (reward - Q), whatever the next state and its row
\* hold; with done false the target adds the discount factor times the
\* maximum of the next state's row.  (Learning rate and discount factor are
\* in units of 1/RateDen.)
C15_Update ==
  ag.op = "update_q_table" =>
    LET b == ag.before
        t == ag.step
        old == Entry(b.q_table, <<t.state_index, t.action_index>>)
        new == Entry(agent.q_table, <<t.state_index, t.action_index>>)
        reward == ag.reward * QScale
        next_max == RowMax(Row(b.q_table, t.next_state_index))
    IN  IF t.done
        THEN RateDen * (new - old) = b.lr * (reward - old)
        ELSE RateDen * RateDen * (new - old) =
               b.lr * (RateDen * reward + b.gamma * next_max - RateDen * old)

\* A terminal update was made while the next state's row held values
\* other than 0, and it changed the cell.
C15_Witness ==
  /\ ag.op = "update_q_table"
  /\ ag.step.done
  /\ RowMax(Row(ag.before.q_table, ag.step.next_state_index)) # 0
  /\ Entry(agent.q_table, <<ag.step.state_index, ag.step.action_index>>)
       # Entry(ag.before.q_table, <<ag.step.state_index, ag.step.action_index>>)

\* C16: decay_exploration_rate sets epsilon to the maximum of (epsilon
\* minus the decay step) and the minimum, so that after any call epsilon is
\* not below the minimum, whatever exploration rate, decay step and minimum
\* the agent was constructed with.
C16_DecayFloorsEpsilon ==
  ag.op = "decay_exploration_rate" =>
    /\ agent.epsilon =
         Max(ag.before.epsilon - ag.before.epsilon_decay, ag.before.epsilon_min)
    /\ agent.epsilon >= agent.epsilon_min

\* C17: an agent constructed with a load path to a missing or unreadable
\* file, or to an array whose shape is not (192, 7), has an all-zero table
\* of shape (192, 7); one constructed from an array of that shape has the
\* array as its table.
C17_CheckpointLoad ==
  ag.op = "__init__" /\ ag.q_table_load_path # "None" =>
    IF ag.file.kind = "array" /\ ag.file.array.shape = <<192, 7>>
    THEN agent.q_table = ag.file.array
    ELSE /\ agent.q_table.shape = <<192, 7>>
         /\ \A i \in 0..191, j \in 0..6 : Entry(agent.q_table, <<i, j>>) = 0

\* An agent was constructed from a saved array of 192 rows and 6 columns
\* that holds values other than 0.
C17_Witness ==
  /\ ag.op = "__init__"
  /\ ag.q_table_load_path # "None"
  /\ ag.file.kind = "array"
  /\ ag.file.array.shape = <<192, 6>>
  /\ DOMAIN ag.file.array.cells # {}
  /\ agent.q_table = Zeros(192, 7)

----------------------------------------------------------------------------
(* The offline trainer: properties.                                        *)

\* The transitions train_agent has visited so far, and the log.
Visited == IF tr.pc = "none" THEN << >> ELSE tr.visited

VisitedTransition(k) == tr.all_transitions[Visited[k].transition]

HasNeeds(transition) ==
  "needs" \in DOMAIN transition.state
  /\ "needs" \in DOMAIN transition.next_state

OutOfRange(needs) ==
  \E need \in NeedNames : needs[need] < 0 \/ needs[need] > 100

HasOutOfRange(transition) ==
  /\ HasNeeds(transition)
  /\ OutOfRange(transition.state.needs)
       \/ OutOfRange(transition.next_state.needs)

\* A need vector with every value brought into [0,100].
Clamped(needs) == [need \in NeedNames |-> Min(Max(needs[need], 0), 100)]

\* The action names train_agent finds an index for.
UsableAction(name) ==
  name = "invalid_action" \/ \E i \in DOMAIN ACTION_NAMES : ACTION_NAMES[i] = name

\* C13 as stated: a visited transition whose state or next_state holds a
\* need outside [0,100] is skipped: no Q-table update is applied for it.
C13_OutOfRangeSkipped ==
  \A k \in DOMAIN Visited :
    HasOutOfRange(VisitedTransition(k)) => Visited[k].did.outcome # "updated"

\* C13, amended: a need outside [0,100] never makes the trainer skip a
\* transition: the value counts as 0 or 100, and the update is applied at
\* the state indices of the clamped need vectors.
C13_OutOfRangeClamped ==
  \A k \in DOMAIN Visited :
    LET t == VisitedTransition(k)
    IN  HasOutOfRange(t) /\ UsableAction(t.action) =>
          /\ Visited[k].did.outcome = "updated"
          /\ Visited[k].did.state_index =
               get_discrete_state_index(Clamped(t.state.needs)).index
          /\ Visited[k].did.next_state_index =
               get_discrete_state_index(Clamped(t.next_state.needs)).index

\* A training has updated the table for a state with hunger 110 and for a
\* next state with energy -5, and has returned.
C13_Witness ==
  /\ tr.pc = "returned"
  /\ \E k \in DOMAIN Visited :
       /\ VisitedTransition(k).state = StateDict(TooHungry)
       /\ Visited[k].did.outcome = "updated"
       /\ <<Visited[k].did.state_index, Visited[k].did.action_index>>
            \in DOMAIN agent.q_table.cells
  /\ \E k \in DOMAIN Visited :
       /\ VisitedTransition(k).next_state = StateDict(TooTired)
       /\ Visited[k].did.outcome = "updated"

\* The transitions of the log that have a pet_id.
Grouped(log) == {i \in DOMAIN log : log[i].pet_id # ""}

\* The first transition of the log with the pet_id of the i-th.
FirstOfEpisode(log, i) ==
  CHOOSE j \in DOMAIN log :
    /\ log[j].pet_id = log[i].pet_id
    /\ \A m \in 1..(j - 1) : log[m].pet_id # log[i].pet_id

\* The order of an epoch: episodes by their first record in the log, the
\* records of an episode by step, records of the same step by their place
\* in the log.
ComesBefore(log, i, j) ==
  \/ FirstOfEpisode(log, i) < FirstOfEpisode(log, j)
  \/ /\ log[i].pet_id = log[j].pet_id
     /\ \/ log[i].step < log[j].step
        \/ log[i].step = log[j].step /\ i < j

EpochOrder(log) ==
  CHOOSE order \in [1..Cardinality(Grouped(log)) -> Grouped(log)] :
    \A a, b \in DOMAIN order : a < b => ComesBefore(log, order[a], order[b])

\* C18: within an epoch the transitions of one episode are visited in
\* ascending step, the visits of two episodes are not interleaved, and
\* every epoch visits the transitions in one order fixed by the log alone
\* (EpochOrder); the table is the result of the updates in that order.
C18_EpisodeOrder ==
  LET log == tr.all_transitions
  IN  /\ \A i, j \in DOMAIN Visited :
           /\ i < j
           /\ Visited[i].epoch = Visited[j].epoch
           /\ VisitedTransition(i).pet_id = VisitedTransition(j).pet_id
           => VisitedTransition(i).step <= VisitedTransition(j).step
      /\ \A i, j, k \in DOMAIN Visited :
           /\ i < j /\ j < k
           /\ Visited[i].epoch = Visited[k].epoch
           /\ VisitedTransition(i).pet_id = VisitedTransition(k).pet_id
           => VisitedTransition(j).pet_id = VisitedTransition(i).pet_id
      /\ Visited # << >> =>
           LET order == EpochOrder(log)
           IN  \A k \in DOMAIN Visited :
                 /\ Visited[k].epoch = (k - 1) \div Len(order)
                 /\ Visited[k].transition = order[((k - 1) % Len(order)) + 1]
      /\ tr.pc = "returned" /\ tr.episodes_data # << >> =>
           Len(Visited) = tr.num_episodes_to_train * Cardinality(Grouped(log))

\* A training of two epochs has returned; its log held step 1 of one
\* episode, then step 0 of another, then step 0 of the first, and all
\* three were applied, in both epochs, as the first, third and second.
C18_Witness ==
  /\ tr.pc = "returned"
  /\ tr.num_episodes_to_train = 2
  /\ Len(tr.all_transitions) = 3
  /\ tr.all_transitions[1].pet_id = "a" /\ tr.all_transitions[1].step = 1
  /\ tr.all_transitions[2].pet_id = "b" /\ tr.all_transitions[2].step = 0
  /\ tr.all_transitions[3].pet_id = "a" /\ tr.all_transitions[3].step = 0
  /\ [k \in DOMAIN Visited |-> Visited[k].transition] = <<3, 1, 2, 3, 1, 2>>
  /\ \A k \in DOMAIN Visited : Visited[k].did.outcome = "updated"

\* The well-formed transitions whose action is null or a name absent from
\* the catalog.
HasNoCatalogAction(transition) ==
  /\ HasNeeds(transition)
  /\ transition.action = "None" \/ ActionIndex(transition.action).raised

\* C19: a visited transition whose action is null or a name absent from
\* the catalog is not skipped: it is applied as an update at the index of
\* "do_nothing".
C19_NoCatalogActionIsDoNothing ==
  \A k \in DOMAIN Visited :
    HasNoCatalogAction(VisitedTransition(k)) =>
      /\ Visited[k].did.outcome = "updated"
      /\ Visited[k].did.action_index = ActionIndex("do_nothing").index

\* The pair (state, action) a transition visits: the discrete index of its
\* state and the index of its action, a null or uncatalogued action counting
\* as "do_nothing".
VisitedPair(transition) ==
  << IndexOfStateDict(transition.state).index,
     IF HasNoCatalogAction(transition) THEN ActionIndex("do_nothing").index
     ELSE ActionIndex(transition.action).index >>

\* A training of one epoch on a log of one episode has returned.
OneEpisodeOneEpoch ==
  /\ tr.pc = "returned"
  /\ tr.num_episodes_to_train = 1
  /\ Len(tr.episodes_data) = 1
  /\ Grouped(tr.all_transitions) = DOMAIN tr.all_transitions

\* C20: after one epoch on a single episode, from a zero table, every cell
\* other than the pairs (state, action) of the episode's transitions still
\* holds 0, and every such pair has received an update.
C20_OnlyVisitedCellsChange ==
  OneEpisodeOneEpoch =>
    LET log == tr.all_transitions
        pairs == {VisitedPair(log[i]) : i \in {j \in DOMAIN log : HasNeeds(log[j])}}
        updated == {<<Visited[k].did.state_index, Visited[k].did.action_index>> :
                      k \in {m \in DOMAIN Visited :
                               Visited[m].did.outcome = "updated"}}
    IN  /\ \A i \in 0..191, j \in 0..6 :
             <<i, j>> \notin pairs => Entry(agent.q_table, <<i, j>>) = 0
        /\ pairs \subseteq updated

\* The numbers of completed epochs after which train_agent is to save:
\* every tenth, and the last.
SavingEpochs(done, asked) == {e \in 1..done : e % 10 = 0 \/ e = asked}

\* The saves made at the end of an epoch, by the number of that epoch.
EpochSaves ==
  {tr.saves[k].epochs : k \in {m \in DOMAIN tr.saves : tr.saves[m].at = "epoch"}}

----------------------------------------------------------------------------
(* The episode simulator: properties.                                      *)

\* What a stored state reads as in episode e now.
Read(o, e) == Deref(o, StateOf(e))

\* C22: in the list run_episode returns, is_done is true on a record exactly
\* when its post-state is dead, no record follows a record with is_done
\* true, and the pre-state of every record is alive.
C22_DoneIsDeadAndLast ==
  \A r \in DOMAIN ep :
    ep[r].pc = "returned" =>
      \A k \in DOMAIN ep[r].episode_data :
        LET record == ep[r].episode_data[k]
        IN  /\ record.is_done <=> ~Read(record.next_state, ep[r]).is_alive
            /\ record.is_done => k = Len(ep[r].episode_data)
            /\ Read(record.state, ep[r]).is_alive

\* An episode returned before its cap because the pet died in its second
\* step.
C22_Witness ==
  \E r \in DOMAIN ep :
    /\ ep[r].pc = "returned"
    /\ Len(ep[r].episode_data) = 2
    /\ ep[r].max_steps > 2
    /\ ep[r].episode_data[2].is_done
    /\ ~ep[r].episode_data[1].is_done

\* C23: run_episode returns for every agent and every max_steps >= 0, and
\* the list it returns has at most max_steps records whose step fields are
\* 0, 1, ..., n-1 in order.
C23_ReturnsNumberedRecords ==
  \A r \in DOMAIN ep :
    /\ ep[r].pc \in {"loop", "returned"}
    /\ ep[r].pc = "returned" =>
         /\ Len(ep[r].episode_data) <= ep[r].max_steps
         /\ \A k \in DOMAIN ep[r].episode_data :
              ep[r].episode_data[k].step = k - 1

\* C24: every step of an episode leaves each record already appended as
\* it was, and its state and next_state read after the step as they read
\* before it.
C24_RecordsAreSnapshots ==
  [][\A r \in DOMAIN ep :
       \A k \in DOMAIN ep[r].episode_data :
         /\ ep'[r].episode_data[k] = ep[r].episode_data[k]
         /\ Read(ep'[r].episode_data[k].state, ep'[r])
              = Read(ep[r].episode_data[k].state, ep[r])
         /\ Read(ep'[r].episode_data[k].next_state, ep'[r])
              = Read(ep[r].episode_data[k].next_state, ep[r])]_vars

\* A later step has changed the needs of the live pet after the first
\* record was appended.
C24_Witness ==
  \E r \in DOMAIN ep :
    /\ Len(ep[r].episode_data) >= 2
    /\ StateOf(ep[r]).needs
         # Read(ep[r].episode_data[1].next_state, ep[r]).needs
    /\ ep[r].episode_data[1].next_state = Copy(ep[r].episode_data[2].state.value)

\* Two runs with the same seed have both returned.
BothReturned == Len(ep) = 2 /\ ep[1].pc = "returned" /\ ep[2].pc = "returned"

\* The part of a stored state that the seed determines.
Seeded(state) == [needs |-> state.needs, is_alive |-> state.is_alive]

\* The part of a record that the seed determines.
SeededPart(record, e) ==
  [ step |-> record.step,
    state |-> Seeded(Read(record.state, e)),
    action |-> record.action,
    action_params |-> record.action_params,
    reward |-> record.reward,
    next_state |-> Seeded(Read(record.next_state, e)),
    is_done |-> record.is_done ]

\* C25 as stated: two runs of run_episode with the Random Agent and the same
\* seed return identical sequences of records, every field equal.
C25_IdenticalRecords ==
  BothReturned => ep[1].episode_data = ep[2].episode_data

\* C25, amended: two runs of run_episode with the Random Agent and the same
\* seed, each step taking less than 450 seconds, return sequences of the
\* same length whose records agree in step, action, action_params, reward,
\* is_done and in the needs and is_alive of state and next_state.
C25_SameSeededPart ==
  /\ BothReturned => Len(ep[1].episode_data) = Len(ep[2].episode_data)
  /\ Len(ep) = 2 =>
       \A k \in DOMAIN ep[2].episode_data :
         /\ k \in DOMAIN ep[1].episode_data
         /\ SeededPart(ep[1].episode_data[k], ep[1])
              = SeededPart(ep[2].episode_data[k], ep[2])

\* Two full runs with the same seed, the second with another pet id and at
\* other clock readings, and with an action of the agent in both.
C25_Witness ==
  /\ BothReturned
  /\ Len(ep[2].episode_data) >= 2
  /\ ep[1].pet_id # ep[2].pet_id
  /\ ep[2].now >= ep[1].now + 449
  /\ ep[1].episode_data[2].action \notin {"None", "invalid_action"}

\* C26: an episode of 500 steps with the Nurturing Agent from the default
\* needs never reaches a dead state, whatever the agent's random draws: it
\* returns 500 records and the pet is alive at the step cap.
C26_NurturedPetSurvives ==
  \A r \in DOMAIN ep :
    /\ ep[r].pet.is_alive
    /\ ep[r].pc # "raised"
    /\ ep[r].pc = "returned" =>
         /\ Len(ep[r].episode_data) = SyntheticSteps
         /\ \A k \in DOMAIN ep[r].episode_data :
              ~ep[r].episode_data[k].is_done

\* The episode has returned at the step cap, the agent having played with
\* the pet in its last step.
C26_Witness ==
  /\ ep[1].pc = "returned"
  /\ ep[1].step = SyntheticSteps
  /\ ep[1].episode_data[SyntheticSteps].action = "play"

----------------------------------------------------------------------------
(* The evaluator: properties.                                              *)

\* The result of an evaluation episode that is about to be returned, with
\* the episode it is the result of.
Returning == ev.pc = "episode" /\ EvalStops(ev.episode)

\* C27: run_evaluation_episode reports survived = true exactly when the
\* episode executed all max_steps steps and the pet is alive after the last
\* one; an episode that ends by the pet's death reports survived = false.
C27_SurvivedIsAliveAtCap ==
  Returning =>
    LET result == EvaluationResult(ev.episode)
    IN  /\ result.survived <=>
             /\ result.total_steps = ev.episode.max_steps
             /\ ev.episode.pet.is_alive
        /\ ~ev.episode.pet.is_alive => ~result.survived
        /\ result.total_steps = Len(result.action_log)

\* An episode is returning in which the pet died in the very last step the
\* cap allows.
C27_Witness ==
  /\ Returning
  /\ ev.episode.episode_steps = ev.episode.max_steps
  /\ ~ev.episode.pet.is_alive

\* The results evaluate_agent has collected.
Results == IF ev.pc = "idle" THEN << >> ELSE ev.all_episode_results

\* C28: an evaluation episode with zero executed steps is reported as
\* survived = false with total reward 0, and evaluate_agent computes its
\* summary without error when there are such episodes.
C28_ZeroStepsNotSurvived ==
  /\ \A k \in DOMAIN Results :
       Results[k].total_steps = 0 =>
         /\ ~Results[k].survived
         /\ Results[k].total_reward = 0
  /\ Results # << >> => ev.pc # "raised"

----------------------------------------------------------------------------
(* The pet service: properties.                                            *)

\* C29: under every interleaving of service operations on the same pet,
\* once the stored record has is_alive = false no later write makes it
\* is_alive = true again.
C29_StoredDeathIsFinal ==
  [][(sv.pc = "serving" /\ ~sv.db.is_alive) => ~sv'.db.is_alive]_vars

----------------------------------------------------------------------------
(* The need-decay engine: the tick in numbers.                             *)

\* trunc(rate * s / 3600) for s >= 0 seconds.
TruncatedDecay(rate, s) == (rate * s) \div 3600

\* v clamped to [0,100].
Clamped100(v) == IF v < 0 THEN 0 ELSE IF v > 100 THEN 100 ELSE v

\* C30: a tick on a live creature, s seconds after the previous tick, changes
\* hunger by +trunc(8s/3600), happiness by -trunc(6s/3600), energy by
\* -trunc(7s/3600) and cleanliness by -trunc(5s/3600), each then clamped to
\* [0,100], and sets the last-tick time to now.
C30_TickInNumbers ==
  (call.op = "tick" /\ before.is_alive) =>
    /\ pet.needs.hunger
         = Clamped100(before.needs.hunger + TruncatedDecay(8, call.elapsed))
    /\ pet.needs.happiness
         = Clamped100(before.needs.happiness - TruncatedDecay(6, call.elapsed))
    /\ pet.needs.energy
         = Clamped100(before.needs.energy - TruncatedDecay(7, call.elapsed))
    /\ pet.needs.cleanliness
         = Clamped100(before.needs.cleanliness
                      - TruncatedDecay(5, call.elapsed))
    /\ pet.last_tick_time = clock
    /\ clock = before.last_tick_time + call.elapsed

----------------------------------------------------------------------------
(* The need-decay engine: the order of effect and tick.                    *)

\* The terminal condition, on a need vector.
Terminal(n) ==
  n.hunger >= 100 \/ n.energy <= 0 \/ n.happiness <= 0 \/ n.cleanliness <= 0

\* C31: in every interaction on a live creature the immediate effect and
\* its cross-effect come before the tick, and the terminal condition is
\* evaluated on the needs after both within the same call: a play that
\* drives energy to 0 and a sleep that drives hunger to 100 leave the
\* creature dead, and a feed is taken off the hunger before the hunger of
\* the elapsed time is added.
C31_EffectBeforeTick ==
  (call.op \in {"feed", "play", "sleep", "clean"} /\ before.is_alive) =>
    /\ pet.is_alive <=> ~Terminal(pet.needs)
    /\ (call.op = "play" /\ before.needs.energy - call.amount \div 2 <= 0)
         => ~pet.is_alive
    /\ (call.op = "sleep" /\ before.needs.hunger + call.amount \div 10 >= 100)
         => ~pet.is_alive
    /\ call.op = "feed" =>
         pet.needs.hunger
           = Min(100, Max(0, before.needs.hunger - call.amount)
                      + TruncatedDecay(8, call.elapsed))

\* A play with no time elapsed took all the energy of a live creature,
\* which is dead when the call returns.
C31_Witness ==
  /\ call.op = "play" /\ call.elapsed = 0 /\ before.is_alive
  /\ before.needs.energy > 0
  /\ pet.needs.energy = 0
  /\ ~pet.is_alive

----------------------------------------------------------------------------
(* The Q-table as the agent's methods leave it.                            *)

\* The cells in which two tables differ.
ChangedCells(old, new) ==
  {x \in (DOMAIN old.cells) \cup (DOMAIN new.cells) :
     Entry(old, x) # Entry(new, x)}

\* C32: the Q-table is changed only by update_q_table, and one update
\* changes at most the cell (state, action) it is called with; choose_action,
\* decay_exploration_rate and save_q_table leave every cell as it was.
C32_OnlyUpdateWrites ==
  [][ /\ agent'.q_table.shape = agent.q_table.shape
      /\ IF ag'.op = "update_q_table" /\ agcalls' # agcalls
         THEN ChangedCells(agent.q_table, agent'.q_table)
                \subseteq {<<ag'.step.state_index, ag'.step.action_index>>}
         ELSE agent'.q_table = agent.q_table ]_vars

\* An update changed its cell of a row whose other cells hold values other
\* than 0, after the exploration rate had been decayed and the table saved.
C32_Witness ==
  /\ ag.op = "update_q_table"
  /\ agcalls.decay_exploration_rate > 0
  /\ disk.kind = "array"
  /\ ChangedCells(ag.before.q_table, agent.q_table)
       = {<<ag.step.state_index, ag.step.action_index>>}
  /\ \E j \in 0..(NUM_ACTIONS - 1) :
       /\ j # ag.step.action_index
       /\ Entry(agent.q_table, <<ag.step.state_index, j>>) # 0

----------------------------------------------------------------------------
(* The exploration rate over a training.                                   *)

\* The transitions visited in epoch e (epochs are counted from 0).
VisitedIn(e) == {k \in DOMAIN tr.visited : tr.visited[k].epoch = e}

\* The transitions of all episodes: what one epoch passes over.
PassLength ==
  Cardinality({<<i, j>> \in (DOMAIN tr.episodes_data) \X (DOMAIN tr.all_transitions) :
                 j \in DOMAIN tr.episodes_data[i].transitions})

\* C33: a training over E epochs calls decay_exploration_rate exactly E
\* times, once at the end of each epoch after the pass over all episodes,
\* whatever the number of transitions updated or skipped in the epoch, also
\* when none is valid.  (A call that finds no episode in its log returns
\* before its first epoch and has no exploration rate to decay.)
C33_DecaysOncePerEpoch ==
  (tr.pc \notin {"none", "start"} /\ tr.all_transitions # << >>) =>
    /\ agcalls.decay_exploration_rate = tr.epoch
    /\ agent.epsilon
         = Max(tr.hyper.epsilon_min,
               tr.hyper.epsilon - tr.epoch * tr.hyper.epsilon_decay)
    /\ \A e \in 0..(tr.epoch - 1) : Cardinality(VisitedIn(e)) = PassLength
    /\ tr.pc = "returned" =>
         agcalls.decay_exploration_rate
           = IF tr.episodes_data = << >> THEN 0 ELSE tr.num_episodes_to_train

\* A training of two epochs has returned: each epoch visited the episodes'
\* two transitions and skipped both, and epsilon was decayed twice.
C33_Witness ==
  /\ tr.pc = "returned"
  /\ tr.num_episodes_to_train = 2
  /\ Len(tr.visited) = 4
  /\ \A k \in DOMAIN tr.visited : tr.visited[k].did.outcome # "updated"
  /\ agcalls.decay_exploration_rate = 2
  /\ agent.epsilon = tr.hyper.epsilon - 2 * tr.hyper.epsilon_decay

----------------------------------------------------------------------------
(* The scripted agents: properties.                                        *)

\* The rule of NurturingAgent for critical needs that comes first in the
\* order hunger, energy, happiness, cleanliness, or NoAction if none holds.
FirstCritical(n) ==
  IF n.hunger > 80 THEN Act("feed", "amount", 30)
  ELSE IF n.energy < 20 THEN Act("sleep", "duration_effect", 60)
  ELSE IF n.happiness < 30 THEN Act("play", "duration_effect", 25)
  ELSE IF n.cleanliness < 30 THEN Act("clean", "amount", 50)
  ELSE NoAction

\* The actions of the proactive branches.
Proactive ==
  {Act("feed", "amount", 20), Act("play", "duration_effect", 15),
   Act("clean", "amount", 30), Act("sleep", "duration_effect", 40)}

\* C34: for a live creature the Nurturing Agent returns the action of the
\* first matching rule in the order hunger > 80 (feed 30), energy < 20
\* (sleep 60), happiness < 30 (play 25), cleanliness < 30 (clean 50); when
\* one of these conditions holds it returns neither no action nor a
\* proactive action; for a dead creature both scripted agents return no
\* action.
C34_CriticalRulesFirst ==
  call.op = "choose_action" =>
    /\ ~before.is_alive => call.action = NoAction
    /\ (call.agent = "nurturing" /\ before.is_alive
          /\ FirstCritical(before.needs) # NoAction) =>
         /\ call.action = FirstCritical(before.needs)
         /\ call.action # NoAction
         /\ call.action \notin Proactive

\* The Nurturing Agent was asked about a live creature whose four needs are
\* all critical, and fed it.
C34_Witness ==
  /\ call.op = "choose_action"
  /\ call.agent = "nurturing"
  /\ before.is_alive
  /\ before.needs.hunger > 80
  /\ before.needs.energy < 20
  /\ before.needs.happiness < 30
  /\ before.needs.cleanliness < 30
  /\ call.action = Act("feed", "amount", 30)

\* The state invariant of a live creature on a need vector.
WithinLife(n) ==
  n.hunger < 100 /\ n.energy > 0 /\ n.happiness > 0 /\ n.cleanliness > 0

\* C39: for every live creature with hunger < 100 and energy, happiness and
\* cleanliness > 0, the action the Nurturing Agent chooses, applied with no
\* time elapsed, leaves the creature alive.
C39_ChoiceNeverKills ==
  (call.op = "choose_action" /\ call.agent = "nurturing"
     /\ before.is_alive /\ WithinLife(before.needs)) =>
    /\ pet.is_alive
    /\ WithinLife(pet.needs)

\* The Nurturing Agent played 25 with a creature of energy 20, the least
\* energy its play rule can find; the creature lives with energy 8.
C39_Witness ==
  /\ call.op = "choose_action"
  /\ call.agent = "nurturing"
  /\ before.is_alive
  /\ WithinLife(before.needs)
  /\ before.needs.energy = 20
  /\ call.action = Act("play", "duration_effect", 25)
  /\ pet.needs.energy = 8
  /\ pet.is_alive

----------------------------------------------------------------------------
(* The records of an episode, one after the other.                         *)

\* C36: in the list of run_episode, the needs and the alive flag of each
\* record's pre-state equal those of the post-state of the record before
\* it.
C36_RecordsChain ==
  \A r \in DOMAIN ep :
    ep[r].pc \in {"loop", "returned"} =>
      \A k \in 1..(Len(ep[r].episode_data) - 1) :
        LET earlier == Read(ep[r].episode_data[k].next_state, ep[r])
            later == Read(ep[r].episode_data[k + 1].state, ep[r])
        IN  /\ later.needs = earlier.needs
            /\ later.is_alive = earlier.is_alive

\* A returned list of three records in which every step changed the needs.
C36_Witness ==
  \E r \in DOMAIN ep :
    /\ ep[r].pc = "returned"
    /\ Len(ep[r].episode_data) = 3
    /\ \A k \in 1..3 :
         Read(ep[r].episode_data[k].next_state, ep[r]).needs
           # Read(ep[r].episode_data[k].state, ep[r]).needs

\* C37: in the list of run_episode a record has the reward -200 exactly
\* when its is_done is true, which only the last record can be; the reward
\* of every other record is the sum of the reward rules on its pre-state and
\* post-state needs.  (Rewards are in hundredths.)
C37_DeathRewardOnlyLast ==
  \A r \in DOMAIN ep :
    ep[r].pc \in {"loop", "returned"} =>
      \A k \in DOMAIN ep[r].episode_data :
        LET record == ep[r].episode_data[k]
        IN  /\ record.reward = -20000 <=> record.is_done
            /\ record.is_done => k = Len(ep[r].episode_data)
            /\ ~record.is_done =>
                 record.reward = RuleSum(Read(record.state, ep[r]).needs,
                                         Read(record.next_state, ep[r]).needs)

\* A returned list of two records: the first with the reward of the rules
\* and is_done false, the second with is_done and the reward -200.
C37_Witness ==
  \E r \in DOMAIN ep :
    /\ ep[r].pc = "returned"
    /\ Len(ep[r].episode_data) = 2
    /\ ~ep[r].episode_data[1].is_done
    /\ ep[r].episode_data[1].reward
         = RuleSum(Read(ep[r].episode_data[1].state, ep[r]).needs,
                   Read(ep[r].episode_data[1].next_state, ep[r]).needs)
    /\ ep[r].episode_data[2].is_done
    /\ ep[r].episode_data[2].reward = -20000

----------------------------------------------------------------------------
(* Training on the simulator's logs.                                       *)

\* The action names of the trainer's catalog.
Catalog == {ACTION_NAMES[i] : i \in DOMAIN ACTION_NAMES}

----------------------------------------------------------------------------
(* The pet service over long times.                                        *)

\* The effect of a service operation on the needs, its tick left out.
EffectOnly(op, n) ==
  IF op.kind # "care" THEN n
  ELSE IF op.name = "feed" THEN feed_effect(n, op.amount)
  ELSE IF op.name = "play" THEN play_effect(n, op.amount)
  ELSE IF op.name = "sleep" THEN sleep_effect(n, op.amount)
  ELSE clean_effect(n, op.amount)

\* C35: a pet rebuilt from storage has its decay clock started at the time
\* of the reload, so the tick of a state fetch or of an interaction ignores
\* the time between the stored last-update timestamp and the reload: the
\* stored needs of a pet that is reached through the service only are
\* changed by the effects of the interactions and never by decay, however
\* long the gaps between the requests.
C35_ReloadRestartsDecay ==
  [][\A r \in Requests :
       /\ (sv.requests[r].pc = "idle" /\ sv'.requests[r].pc = "loaded") =>
            /\ sv'.requests[r].pet_instance.last_tick_time = sv'.now
            /\ sv'.requests[r].pet_instance.needs = sv.db.needs
       /\ (sv.requests[r].pc = "loaded" /\ sv'.requests[r].pc = "idle") =>
            sv'.db.needs = EffectOnly(sv.requests[r].op,
                                      sv.requests[r].pet_instance.needs)]_vars

\* More than a day after its creation, and after three requests, the
\* stored pet has the needs it was created with.
C35_Witness ==
  /\ sv.pc = "serving"
  /\ sv.started >= 3
  /\ \A r \in Requests : sv.requests[r].pc = "idle"
  /\ sv.now > 24 * SecondsPerHour
  /\ sv.db.is_alive
  /\ sv.db.needs = PetNeeds

----------------------------------------------------------------------------
(* Ticks that come too soon to decay anything.                             *)

\* C40: a tick less than 450 seconds after the previous tick changes no
\* need of a live creature and yet sets the last-tick time to now, so that
\* ticks each less than 450 seconds apart never change the needs, whatever
\* time they add up to: the decay of a sequence of ticks is not a function
\* of the total elapsed time.
C40_ShortTicksNeverDecay ==
  /\ (call.op = "tick" /\ before.is_alive /\ call.elapsed < 450) =>
       /\ pet.needs = before.needs
       /\ pet.last_tick_time = clock
  /\ pet.needs = PetNeeds
  /\ pet.is_alive

\* Two days of ticks 449 seconds apart have left the default needs as they
\* were, where a single tick after that time finds a starved creature.
C40_Witness ==
  /\ call.op = "tick" /\ call.elapsed = 449
  /\ clock - pet.created_at >= 2 * SecondsPerDay
  /\ pet.last_tick_time = clock
  /\ pet.needs = PetNeeds
  /\ ~tick(NewPet(pet.created_at), clock).is_alive

====
